---- MODULE Spec2Model ----
(***************************************************************************)
(* Verification model of travel_marvel's alternative-ranking and           *)
(* route-waypoint-selection engine.                                        *)
(*                                                                         *)
(* Coordinates are integer kilometre offsets in a local plane, so that     *)
(* distances and projections can be computed by the model checker.         *)
(* distance_km is the distance between two such points rounded down to a   *)
(* whole kilometre.  An optional value (Python None) is the empty          *)
(* sequence, a present value v is the one-element sequence <<v>>.          *)
(***************************************************************************)
EXTENDS Integers, Sequences, FiniteSets, TLC

(***************************************************************************)
(* Bounds of the model.                                                    *)
(***************************************************************************)
\* longest list the ORS POI source returns
MaxOrs == 2

(***************************************************************************)
(* Generic helpers.                                                        *)
(***************************************************************************)
Min(a, b) == IF a <= b THEN a ELSE b
Max(a, b) == IF a >= b THEN a ELSE b

Range(s) == {s[i] : i \in 1..Len(s)}

\* all sequences over S of length at most n
SeqsUpTo(S, n) == UNION {[1..k -> S] : k \in 0..n}

\* Python s[:n]
Prefix(s, n) ==
    IF n >= 0 THEN SubSeq(s, 1, Min(n, Len(s)))
    ELSE SubSeq(s, 1, Max(Len(s) + n, 0))

\* Python [x for x in s if Keep(x)]
Filter(s, Keep(_)) == SelectSeq(s, Keep)

\* Python's stable list.sort: Before(a, b) says that a's key is strictly
\* smaller than b's key; elements with equal keys keep their order.
StableSort(s, Before(_, _)) ==
    LET n == Len(s)
        Rank(i) == 1 + Cardinality({j \in 1..n :
                          \/ Before(s[j], s[i])
                          \/ (~Before(s[i], s[j]) /\ j < i)})
    IN [k \in 1..n |-> s[CHOOSE i \in 1..n : Rank(i) = k]]

ISqrt(n) == CHOOSE r \in 0..n : r * r <= n /\ (r + 1) * (r + 1) > n

(***************************************************************************)
(* GeoMath: utils/helper_functions.py, utils/poi_route_safety.py           *)
(***************************************************************************)
\* distance in whole kilometres between two points of the local plane
distance_km(a, b) ==
    ISqrt((a[1] - b[1]) * (a[1] - b[1]) + (a[2] - b[2]) * (a[2] - b[2]))

\* squared length of the segment a -> b (line_len_sq)
LineLenSq(a, b) ==
    (b[1] - a[1]) * (b[1] - a[1]) + (b[2] - a[2]) * (b[2] - a[2])

\* The projection parameter t of p onto the segment a -> b, clamped to [0,1].
\* t is kept as the numerator of the fraction t = Position / LineLenSq(a, b);
\* a degenerate segment (start = end) gives t = 0.
point_to_line_position(p, a, b) ==
    LET dot == (p[1] - a[1]) * (b[1] - a[1]) + (p[2] - a[2]) * (b[2] - a[2])
    IN IF LineLenSq(a, b) = 0 THEN 0
       ELSE Max(0, Min(LineLenSq(a, b), dot))

\* 100 * math.cos(math.radians(deg)) for the angles of the model
Cos100(deg) ==
    CASE deg = 0 -> 100
      [] deg = 30 -> 87
      [] deg = 60 -> 50
      [] deg = 90 -> 0
      [] deg = 120 -> 0 - 50

\* point_to_line_distance_km(px, py, x1, y1, x2, y2) on degrees, up to the
\* projection parameter: the factors it scales the y deltas of the segment
\* and of the point with, the two vectors (in units of 1.11 km), and t
\* as the fraction t_num / t_den.  The function above is this projection
\* on a plane where both factors are 1.
local_frame(px, py, x1, y1, x2, y2) ==
    LET segment_scale == Cos100((y1 + y2) \div 2)
        point_scale == Cos100((y1 + py) \div 2)
        dx == (x2 - x1) * 100
        dy == (y2 - y1) * segment_scale
        dpx == (px - x1) * 100
        dpy == (py - y1) * point_scale
        line_len_sq == dx * dx + dy * dy
    IN [segment_scale |-> segment_scale, point_scale |-> point_scale,
        dx |-> dx, dy |-> dy, dpx |-> dpx, dpy |-> dpy,
        t_num |-> IF line_len_sq = 0 THEN 0
                  ELSE Max(0, Min(line_len_sq, dpx * dx + dpy * dy)),
        t_den |-> IF line_len_sq = 0 THEN 1 ELSE line_len_sq]

(***************************************************************************)
(* Points of interest (models/poi.py).                                     *)
(***************************************************************************)
Start == <<0, 0>>

\* the places the discovery sources know
Places == {<<1, 0>>, <<3, 0>>, <<4, 3>>}

\* scenic scores a source may attach; <<>> is None
Scores == {<<>>, <<1>>, <<2>>}

\* a PointOfInterest as a source returns it
NewPoi(at, sc) ==
    [at |-> at, score |-> sc, position_along_route |-> <<>>,
     distance_from_route_km |-> <<>>]

\* p.score or 0
ScoreOr0(p) == IF p.score = <<>> THEN 0 ELSE p.score[1]

\* p.position_along_route or 0
PosOr0(p) == IF p.position_along_route = <<>> THEN 0 ELSE p.position_along_route[1]

(***************************************************************************)
(* Route safety (utils/poi_route_safety.py).                               *)
(***************************************************************************)
RECURSIVE DedupWalk(_, _)
\* the loop of deduplicate_pois with the set of keys seen so far; a key is
\* the ~100 m cell of the coordinates (a tenth of a kilometre per cell)
DedupWalk(pois, seen) ==
    IF pois = <<>> THEN <<>>
    ELSE LET poi == Head(pois)
             key == <<poi.at[1] * 10, poi.at[2] * 10>>
         IN IF key \notin seen
            THEN <<poi>> \o DedupWalk(Tail(pois), seen \cup {key})
            ELSE DedupWalk(Tail(pois), seen)

deduplicate_pois(pois) == DedupWalk(pois, {})

RECURSIVE ProgressiveWalk(_, _, _, _)
\* the loop of filter_progressive_pois from element i on, with the running
\* current_distance
ProgressiveWalk(pois, end, tolerance_km, current_distance) ==
    IF pois = <<>> THEN <<>>
    ELSE LET poi == Head(pois)
             poi_distance == distance_km(poi.at, end)
         IN IF poi_distance <= current_distance + tolerance_km
            THEN <<poi>> \o ProgressiveWalk(Tail(pois), end, tolerance_km,
                                Min(current_distance, poi_distance + tolerance_km))
            ELSE ProgressiveWalk(Tail(pois), end, tolerance_km, current_distance)

filter_progressive_pois(pois, start, end, tolerance_km) ==
    IF pois = <<>> THEN <<>>
    ELSE ProgressiveWalk(pois, end, tolerance_km, distance_km(start, end))

RECURSIVE CheckWalkNoTolerance(_, _, _, _)
\* a check loop that forgets the tolerance in its test
CheckWalkNoTolerance(pois, end, tolerance_km, current_distance) ==
    IF pois = <<>> THEN TRUE
    ELSE LET poi_distance == distance_km(Head(pois).at, end)
         IN IF poi_distance > current_distance THEN FALSE
            ELSE CheckWalkNoTolerance(Tail(pois), end, tolerance_km,
                                      Min(current_distance, poi_distance + tolerance_km))

\* a check that allows no backward movement at all
check_progressive_approach_no_tolerance(pois, start, end, tolerance_km) ==
    IF pois = <<>> THEN TRUE
    ELSE CheckWalkNoTolerance(pois, end, tolerance_km, distance_km(start, end))

RECURSIVE CheckWalk(_, _, _, _)
\* the loop of check_progressive_approach with the running current_distance
CheckWalk(pois, end, tolerance_km, current_distance) ==
    IF pois = <<>> THEN TRUE
    ELSE LET poi_distance == distance_km(Head(pois).at, end)
         IN IF poi_distance > current_distance + tolerance_km THEN FALSE
            ELSE CheckWalk(Tail(pois), end, tolerance_km,
                           Min(current_distance, poi_distance + tolerance_km))

check_progressive_approach(pois, start, end, tolerance_km) ==
    IF pois = <<>> THEN TRUE
    ELSE CheckWalk(pois, end, tolerance_km, distance_km(start, end))

(***************************************************************************)
(* Waypoint selection (services/poi/poi_discovery_service.py).             *)
(***************************************************************************)
\* sort key (-(p.score or 0), p.position_along_route or 0)
ScoreThenPosition(a, b) ==
    \/ ScoreOr0(a) > ScoreOr0(b)
    \/ (ScoreOr0(a) = ScoreOr0(b) /\ PosOr0(a) < PosOr0(b))

\* sort key (-(p.score or 0), p.lat, p.lon)
ScoreThenLatLon(a, b) ==
    \/ ScoreOr0(a) > ScoreOr0(b)
    \/ (ScoreOr0(a) = ScoreOr0(b) /\ a.at[1] < b.at[1])
    \/ (ScoreOr0(a) = ScoreOr0(b) /\ a.at[1] = b.at[1] /\ a.at[2] < b.at[2])

\* sort key p.position_along_route if it is not None else 999; positions are
\* fractions of line_len_sq, and 999 is above every fraction in [0,1]
PositionOr999(a, b) ==
    /\ a.position_along_route # <<>>
    /\ (b.position_along_route = <<>>
        \/ a.position_along_route[1] < b.position_along_route[1])

\* min(int(poi.position_along_route / segment_size), num_segments - 1) with
\* segment_size = 1.0 / num_segments; line_len_sq is the denominator of the
\* position
SegmentIdx(poi, num_segments, line_len_sq) ==
    IF line_len_sq = 0 THEN Min(0, num_segments - 1)
    ELSE Min((poi.position_along_route[1] * num_segments) \div line_len_sq,
             num_segments - 1)

\* what _optimize_poi_selection raises: 1.0 / 0 for max_count = 0, and an
\* index into the empty segment list for max_count < 0
optimize_raises(pois, max_count) ==
    /\ Len(pois) > max_count
    /\ max_count <= 0
    /\ \E i \in 1..Len(pois) : pois[i].position_along_route # <<>>

\* a selection that sorts by position and never cuts to max_count
optimize_poi_selection_uncut(pois, max_count, line_len_sq) ==
    StableSort(pois, PositionOr999)

\* a selection that takes the best max_count candidates by score, whatever
\* their segment
optimize_poi_selection_by_score(pois, max_count, line_len_sq) ==
    IF Len(pois) <= max_count THEN pois
    ELSE StableSort(Prefix(StableSort(pois, ScoreThenPosition), max_count), PositionOr999)

\* _optimize_poi_selection(pois, max_count), where it does not raise
optimize_poi_selection(pois, max_count, line_len_sq) ==
    IF Len(pois) <= max_count THEN pois
    ELSE
    LET HasPosition(p) == p.position_along_route # <<>>
        NoPosition(p) == p.position_along_route = <<>>
        pois_with_position == Filter(pois, HasPosition)
        pois_without_position == Filter(pois, NoPosition)
    IN IF pois_with_position = <<>>
       THEN Prefix(StableSort(pois, ScoreThenLatLon), max_count)
       ELSE
       LET num_segments == max_count
           segment(k) ==
               LET InSegment(p) == SegmentIdx(p, num_segments, line_len_sq) = k
               IN StableSort(Filter(pois_with_position, InSegment), ScoreThenPosition)
           RECURSIVE Best(_)
           \* the best POI of the non-empty segments k, k+1, ...
           Best(k) ==
               IF k > num_segments - 1 THEN <<>>
               ELSE IF segment(k) = <<>> THEN Best(k + 1)
               ELSE <<segment(k)[1]>> \o Best(k + 1)
           selected == Best(0)
           NotSelected(p) == p \notin Range(selected)
           remaining == StableSort(Filter(pois_with_position, NotSelected),
                                   ScoreThenPosition)
           filled == selected \o Prefix(remaining, max_count - Len(selected))
           topped ==
               IF Len(filled) < max_count /\ pois_without_position # <<>>
               THEN filled \o Prefix(StableSort(pois_without_position, ScoreThenLatLon),
                                     max_count - Len(filled))
               ELSE filled
       IN Prefix(StableSort(topped, PositionOr999), max_count)

\* the annotation loop: position along the direct line, distance to the
\* destination
Annotate(poi, start, end) ==
    [poi EXCEPT !.position_along_route = <<point_to_line_position(poi.at, start, end)>>,
                !.distance_from_route_km = <<distance_km(poi.at, end)>>]

\* the scored POIs by descending score, then the unscored ones
PrioritizeScenic(pois) ==
    LET Scored(p) == p.score # <<>>
        Unscored(p) == p.score = <<>>
        ByScoreDesc(a, b) == ScoreOr0(a) > ScoreOr0(b)
    IN StableSort(Filter(pois, Scored), ByScoreDesc) \o Filter(pois, Unscored)

\* max_pois when the caller passes None
AutoMaxPois(route_distance_km) ==
    IF route_distance_km < 50 THEN 2
    ELSE IF route_distance_km < 100 THEN 3
    ELSE 5

\* what a discovery source contributes: nothing when it raised (or was not
\* queried), its POIs otherwise
Contribution(outcome) == IF outcome.ok THEN outcome.pois ELSE <<>>

\* discover_pois_along_route from the outcomes of the two sources on: the
\* list handed to _optimize_poi_selection, its result, and the result of the
\* closing filter; raised when _optimize_poi_selection raises
discover_pois_along_route(start, end, max_pois_arg, tolerance_km, prioritize, osm, ors) ==
    LET effective_max == IF max_pois_arg = <<>> THEN AutoMaxPois(distance_km(start, end))
                         ELSE max_pois_arg[1]
        all_pois == Contribution(osm) \o Contribution(ors)
        deduplicated == deduplicate_pois(all_pois)
        annotated == [i \in 1..Len(deduplicated) |-> Annotate(deduplicated[i], start, end)]
        ByPosition(a, b) == PosOr0(a) < PosOr0(b)
        ordered_pois == StableSort(annotated, ByPosition)
        progressive == filter_progressive_pois(ordered_pois, start, end, tolerance_km)
        prioritized == IF prioritize THEN PrioritizeScenic(progressive) ELSE progressive
        selected == optimize_poi_selection(prioritized, effective_max, LineLenSq(start, end))
    IN IF optimize_raises(prioritized, effective_max)
       THEN [raised |-> TRUE, progressive_pois |-> prioritized,
             selected_pois |-> <<>>, final_pois |-> <<>>]
       ELSE [raised |-> FALSE, progressive_pois |-> prioritized,
             selected_pois |-> selected,
             final_pois |-> filter_progressive_pois(selected, start, end, tolerance_km)]

(***************************************************************************)
(* Route path (services/alternatives_discovery/                            *)
(* alternatives_discovery_service.py).                                     *)
(***************************************************************************)
profiles == <<"driving-car", "foot-walking", "cycling-regular">>

\* [[coord[1], coord[0]] for coord in routes[0] if len(coord) >= 2]
SwapCoords(route) ==
    LET Sized(c) == Len(c) >= 2
        kept == Filter(route, Sized)
    IN [i \in 1..Len(kept) |-> <<kept[i][2], kept[i][1]>>]

\* the route_path one iteration of the profile loop leaves: the response of
\* ors_route is a raise or its list of routes
PathOf(response) ==
    IF response.ok /\ response.routes # <<>> THEN SwapCoords(response.routes[1])
    ELSE <<>>

RECURSIVE ProfileLoopNoBreak(_, _)
\* a profile loop without the break: every profile is requested and the
\* last usable answer stays
ProfileLoopNoBreak(responses, i) ==
    IF i > Len(profiles) THEN [requested |-> <<>>, route_path |-> <<>>]
    ELSE LET rest == ProfileLoopNoBreak(responses, i + 1)
         IN [requested |-> <<profiles[i]>> \o rest.requested,
             route_path |-> IF rest.route_path # <<>> THEN rest.route_path
                            ELSE PathOf(responses[i])]

RECURSIVE ProfileLoop(_, _)
\* the profile loop from profile i on: the profiles requested and the
\* route_path at the end of the loop
ProfileLoop(responses, i) ==
    IF i > Len(profiles) THEN [requested |-> <<>>, route_path |-> <<>>]
    ELSE IF PathOf(responses[i]) # <<>>
         THEN [requested |-> <<profiles[i]>>, route_path |-> PathOf(responses[i])]
         ELSE LET rest == ProfileLoop(responses, i + 1)
              IN [requested |-> <<profiles[i]>> \o rest.requested,
                  route_path |-> rest.route_path]

\* a route builder without the straight-line fallback
build_route_path_no_fallback(user_start, waypoints, destination, responses) ==
    LET loop == ProfileLoop(responses, 1)
    IN [requested |-> loop.requested, route_path |-> loop.route_path]

\* [user_start, *waypoints, destination] as (lat, lon) points
LatLngPoints(user_start, waypoints, destination) ==
    <<user_start>> \o [i \in 1..Len(waypoints) |-> waypoints[i].at] \o <<destination>>

build_route_path(user_start, waypoints, destination, responses) ==
    LET loop == ProfileLoop(responses, 1)
    IN [requested |-> loop.requested,
        route_path |-> IF loop.route_path = <<>>
                       THEN LatLngPoints(user_start, waypoints, destination)
                       ELSE loop.route_path]

(***************************************************************************)
(* Category mapping (services/alternatives_discovery/category_mapping.py). *)
(***************************************************************************)
\* the keys of CATEGORY_EQUIV in their order
CoarseLabels ==
    <<"lake", "waterfall", "beach", "viewpoint", "park", "castle", "church",
      "museum", "unknown">>

CATEGORY_EQUIV(coarse) ==
    CASE coarse = "lake" -> {"lake", "lagoon", "reservoir", "pond", "fjord",
                             "glacial_lake", "crater_lake"}
      [] coarse = "waterfall" -> {"waterfall", "cascade"}
      [] coarse = "beach" -> {"beach", "bay", "shore", "coastline"}
      [] coarse = "viewpoint" -> {"viewpoint", "peak", "summit", "overlook", "cliff"}
      [] coarse = "park" -> {"park", "protected_area", "nature_reserve"}
      [] coarse = "castle" -> {"castle", "fortress"}
      [] coarse = "church" -> {"church", "cathedral", "basilica", "monastery"}
      [] coarse = "museum" -> {"museum"}
      [] coarse = "unknown" -> {"unknown"}

\* SUBTYPE_TO_COARSE.get(category, default)
SUBTYPE_TO_COARSE(category, default) ==
    CASE category \in {"lagoon", "reservoir", "pond", "fjord"} -> "lake"
      [] category = "cascade" -> "waterfall"
      [] category \in {"cathedral", "basilica", "monastery"} -> "church"
      [] category = "fortress" -> "castle"
      [] category \in {"protected_area", "nature_reserve"} -> "park"
      [] OTHER -> default

\* str.lower on the labels of the model
Lower(label) == IF label = "Castle" THEN "castle" ELSE label

matching_buckets(query_category) ==
    LET q == Lower(query_category)
        allowed == IF q \in Range(CoarseLabels) THEN CATEGORY_EQUIV(q) ELSE {q}
        Matches(coarse) == coarse \in allowed \/ CATEGORY_EQUIV(coarse) \cap allowed # {}
    IN Filter(CoarseLabels, Matches)

(***************************************************************************)
(* Text, embedding and scenic boost (text_features.py, embedding_index.py, *)
(* scenic_boost.py).  The POIs of the model carry no tags and no narrative *)
(* description, so their text is the category and its default description.  *)
(***************************************************************************)
poi_text(data) == <<"category", Lower(data.category)>>

\* the embedding model: a unit vector per text, in fifths
encode(text) ==
    CASE text[2] = "lake" -> <<5, 0>>
      [] text[2] = "lagoon" -> <<4, 3>>
      [] text[2] = "castle" -> <<3, 4>>
      [] OTHER -> <<0, 5>>

\* inner product of the unit vectors of two texts, in hundredths
Cosine(text1, text2) ==
    4 * (encode(text1)[1] * encode(text2)[1] + encode(text1)[2] * encode(text2)[2])

\* TextIndex.search: the topn items by descending inner product
index_search(items, query_text, topn) ==
    LET scored == [i \in 1..Len(items) |->
                      <<items[i], Cosine(poi_text(items[i]), query_text)>>]
        Closer(h1, h2) == h1[2] > h2[2]
    IN Prefix(StableSort(scored, Closer), topn)

\* _category_boost, in hundredths
category_boost(category) ==
    CASE category \in {"lake", "waterfall", "beach", "viewpoint"} -> 12
      [] category = "park" -> 8
      [] OTHER -> 0

\* scenic_boost in hundredths; steep is the set of coordinates for which
\* relief_is_steep answers True
scenic_boost(poi, steep) ==
    Max(0, Min(30, category_boost(Lower(poi.category))
                   + (IF poi.at \in steep THEN 10 ELSE 0)))

(***************************************************************************)
(* SimilarPOIFinder (similar_poi_finder.py).                               *)
(***************************************************************************)
\* the default alpha of SimilarPOIFinder, in tenths
Alpha10 == 7

\* the bucket build_index puts a candidate of this raw category into
BucketOf(raw_category) ==
    LET category == Lower(raw_category)
    IN IF category \in Range(CoarseLabels) THEN category
       ELSE SUBTYPE_TO_COARSE(category, "unknown")

\* a radius test that measures the candidate against itself
BeyondRadiusOfItself(at, user_center, radius_km) == distance_km(at, at) > radius_km

\* _distance_km(...) > self.radius_km
BeyondRadius(at, user_center, radius_km) == distance_km(at, user_center) > radius_km

\* float(poi["lat"]), float(poi["lon"]) succeed; <<>> stands for coordinates
\* that are missing or do not parse
Parseable(poi) == poi.at # <<>>

\* the buckets of build_index before anything is embedded: coarse label ->
\* the candidates within the radius, in pool order
Buckets(regional_pois, user_center, radius_km) ==
    [coarse \in Range(CoarseLabels) |->
        LET Member(poi) == /\ Parseable(poi)
                           /\ ~BeyondRadius(poi.at, user_center, radius_km)
                           /\ BucketOf(poi.category) = coarse
        IN Filter(regional_pois, Member)]

\* the non-empty buckets in the order build_index embeds them
BuildOrder(buckets) ==
    LET NonEmpty(coarse) == buckets[coarse] # <<>>
    IN Filter(CoarseLabels, NonEmpty)

\* index_by_cat after build_index embedded the first n non-empty buckets
IndexAfter(buckets, n) ==
    [coarse \in Range(SubSeq(BuildOrder(buckets), 1, n)) |-> buckets[coarse]]

\* a build_index that keeps the buckets of the earlier call
build_index_no_clear(earlier, regional_pois, user_center, radius_km, n) ==
    LET built == IndexAfter(Buckets(regional_pois, user_center, radius_km), n)
    IN [coarse \in DOMAIN earlier \cup DOMAIN built |->
           IF coarse \in DOMAIN built THEN built[coarse] ELSE earlier[coarse]]

\* index_by_cat after build_index: what the finder held before is cleared,
\* then the first n non-empty buckets are embedded
build_index(earlier, regional_pois, user_center, radius_km, n) ==
    IndexAfter(Buckets(regional_pois, user_center, radius_km), n)

RECURSIVE DedupeHits(_, _, _, _)
\* the dedup loop of find_similar: first occurrence of a key wins, and a
\* hit beyond the radius is seen but not kept
DedupeHits(hits, seen, user_center, radius_km) ==
    IF hits = <<>> THEN <<>>
    ELSE LET item == Head(hits)[1]
             key == <<item.name, item.at, item.category>>
         IN IF key \in seen
            THEN DedupeHits(Tail(hits), seen, user_center, radius_km)
            ELSE IF BeyondRadius(item.at, user_center, radius_km)
                 THEN DedupeHits(Tail(hits), seen \cup {key}, user_center, radius_km)
                 ELSE <<Head(hits)>> \o
                      DedupeHits(Tail(hits), seen \cup {key}, user_center, radius_km)

RECURSIVE SearchBuckets(_, _, _, _)
\* hits.extend(self._search_bucket(query, bucket, topn)) over the buckets
SearchBuckets(index_by_cat, buckets, query, topn) ==
    IF buckets = <<>> THEN <<>>
    ELSE (IF Head(buckets) \in DOMAIN index_by_cat
          THEN index_search(index_by_cat[Head(buckets)], poi_text(query), topn)
          ELSE <<>>)
         \o SearchBuckets(index_by_cat, Tail(buckets), query, topn)

\* a self-match test that forgets to lower the category of the hit
SelfMatchRawCategory(item, query) ==
    <<item.at, item.category>> = <<query.at, Lower(query.category)>>

\* is the hit the query itself: same coordinates and category
SelfMatch(item, query) ==
    <<item.at, Lower(item.category)>> = <<query.at, Lower(query.category)>>

\* final_score for a finder constructed with alpha (in tenths): cosine
\* and boost in hundredths, the score in thousandths
final_score(alpha10, cosine, boost) ==
    alpha10 * Max(0, Min(100, cosine)) + (10 - alpha10) * boost

\* final_score in thousandths, for the default alpha
FinalScore(cosine, boost) ==
    Alpha10 * Max(0, Min(100, cosine)) + (10 - Alpha10) * boost

\* a find_similar that sorts without reverse=True: ascending scores
find_similar_one_ascending(index_by_cat, user_center, radius_km, query, topk_each, steep) ==
    LET hits == SearchBuckets(index_by_cat, matching_buckets(query.category), query,
                              Max(30, topk_each * 5))
        deduped == DedupeHits(hits, {}, user_center, radius_km)
        NotSelf(hit) == ~SelfMatch(hit[1], query)
        others == Filter(deduped, NotSelf)
        scored == [i \in 1..Len(others) |->
                      <<others[i][1],
                        FinalScore(others[i][2], scenic_boost(others[i][1], steep))>>]
        Higher(h1, h2) == h1[2] < h2[2]
        top_hits == Prefix(StableSort(scored, Higher), topk_each)
    IN [i \in 1..Len(top_hits) |->
           [name |-> top_hits[i][1].name, at |-> top_hits[i][1].at,
            score |-> <<top_hits[i][2]>>, category |-> top_hits[i][1].category]]

\* the "results" list find_similar builds for one query
find_similar_one(index_by_cat, user_center, radius_km, query, topk_each, steep) ==
    LET hits == SearchBuckets(index_by_cat, matching_buckets(query.category), query,
                              Max(30, topk_each * 5))
        deduped == DedupeHits(hits, {}, user_center, radius_km)
        NotSelf(hit) == ~SelfMatch(hit[1], query)
        others == Filter(deduped, NotSelf)
        scored == [i \in 1..Len(others) |->
                      <<others[i][1],
                        FinalScore(others[i][2], scenic_boost(others[i][1], steep))>>]
        Higher(h1, h2) == h1[2] > h2[2]
        top_hits == Prefix(StableSort(scored, Higher), topk_each)
    IN [i \in 1..Len(top_hits) |->
           [name |-> top_hits[i][1].name, at |-> top_hits[i][1].at,
            score |-> <<top_hits[i][2]>>, category |-> top_hits[i][1].category]]

(***************************************************************************)
(* Orchestration (alternatives_discovery_service.py).                      *)
(***************************************************************************)
\* _to_poi: the PointOfInterest of a resolved record
to_poi(record, score) ==
    [name |-> record.name, at |-> record.at, poi_type |-> record.category,
     score |-> score]

\* a fallback that does not trim the candidates
FallbackResultsUntrimmed(resolved_candidates, topk) ==
    [i \in 1..Len(resolved_candidates) |->
        [name |-> resolved_candidates[i].name, at |-> resolved_candidates[i].at,
         score |-> <<>>, category |-> resolved_candidates[i].category]]

\* the fallback suggestion: the first topk_each candidates, unscored
FallbackResults(resolved_candidates, topk) ==
    LET trimmed_candidates == Prefix(resolved_candidates, topk)
    IN [i \in 1..Len(trimmed_candidates) |->
           [name |-> trimmed_candidates[i].name, at |-> trimmed_candidates[i].at,
            score |-> <<>>, category |-> trimmed_candidates[i].category]]

\* next(candidate for candidate in resolved_candidates if it has the name
\* and the coordinates of the alternative, default)
RecordOf(alternative, resolved_candidates) ==
    LET Same(i) == /\ resolved_candidates[i].name = alternative.name
                   /\ resolved_candidates[i].at = alternative.at
    IN IF \E i \in 1..Len(resolved_candidates) : Same(i)
       THEN resolved_candidates[CHOOSE i \in 1..Len(resolved_candidates) :
                Same(i) /\ \A j \in 1..(i - 1) : ~Same(j)]
       ELSE [name |-> alternative.name, at |-> alternative.at,
             category |-> alternative.category]

\* the alt_list of one suggestion
AltList(suggestion, resolved_candidates) ==
    [i \in 1..Len(suggestion) |->
        LET record == RecordOf(suggestion[i], resolved_candidates)
        IN [destination |-> to_poi(record, suggestion[i].score), raw |-> record]]

\* [poi for poi in resolved if poi is not None]
NotNone(outcomes) ==
    LET IsPoi(o) == o.status = "ok"
        found == Filter(outcomes, IsPoi)
    IN [i \in 1..Len(found) |-> found[i].poi[1]]

(***************************************************************************)
(* The caches of the ranking: TEXT_CACHE (text_features.py) and            *)
(* EMBED_CACHE (embedding_index.py).  A cache is a function from the keys  *)
(* written so far to their values.  The POI dicts of this part carry a     *)
(* narrative description "desc" (the empty string for none) and no tags;   *)
(* a text is the pair of its category and its description.                 *)
(***************************************************************************)
\* cache.set(key, value)
CacheSet(cache, key, value) ==
    [x \in DOMAIN cache \cup {key} |-> IF x = key THEN value ELSE cache[x]]

\* the cache_key of poi_text: name, category and tags, not the description
text_cache_key(data) == <<data.name, data.category>>

\* the text poi_text builds on a miss: the lowered category and the
\* description, or the default description of the category
build_text(data) ==
    <<Lower(data.category), IF data.desc = "" THEN "default" ELSE data.desc>>

\* a poi_text that answers a hit from the cache and then refreshes the
\* entry with the text it builds
poi_text_refreshing(cache, data) ==
    LET cache_key == text_cache_key(data)
    IN [text |-> IF cache_key \in DOMAIN cache THEN cache[cache_key]
                 ELSE build_text(data),
        cache |-> CacheSet(cache, cache_key, build_text(data))]

\* poi_text(data) on the cache: the text returned and the cache after
poi_text_cached(cache, data) ==
    LET cache_key == text_cache_key(data)
    IN IF cache_key \in DOMAIN cache
       THEN [text |-> cache[cache_key], cache |-> cache]
       ELSE [text |-> build_text(data),
             cache |-> CacheSet(cache, cache_key, build_text(data))]

RECURSIVE TextsOf(_, _)
\* [poi_text(item) for item in items]: the texts and the cache after
TextsOf(cache, items) ==
    IF items = <<>> THEN [texts |-> <<>>, cache |-> cache]
    ELSE LET first == poi_text_cached(cache, Head(items))
             rest == TextsOf(first.cache, Tail(items))
         IN [texts |-> <<first.text>> \o rest.texts, cache |-> rest.cache]

\* model.encode on the texts of this part: a text with the default
\* description is embedded by its category, a narrative one elsewhere
encode_text(text) ==
    IF text[2] = "default" THEN encode(<<"category", text[1]>>) ELSE <<3, 4>>

\* the keys ("EMB", _hash(text)) the texts miss in the cache; the hash is
\* taken to be free of collisions, so the text stands for its hash
MissingTexts(cache, texts) == {texts[i] : i \in 1..Len(texts)} \ DOMAIN cache

\* TextIndex._embed(texts): the vectors and the cache after
embed_cached(cache, texts) ==
    [vectors |-> [i \in 1..Len(texts) |->
                    IF texts[i] \in DOMAIN cache THEN cache[texts[i]]
                    ELSE encode_text(texts[i])],
     cache |-> [x \in DOMAIN cache \cup MissingTexts(cache, texts) |->
                  IF x \in DOMAIN cache THEN cache[x] ELSE encode_text(x)]]

\* an add that stores the items before it embeds their texts
text_index_add_meta_first(index, index_meta, cache, items, texts, model_ok) ==
    IF (MissingTexts(cache, texts) # {} /\ ~model_ok) \/ texts = <<>>
    THEN [raised |-> TRUE, index |-> index, meta |-> index_meta \o items,
          cache |-> cache]
    ELSE [raised |-> FALSE,
          index |-> index \o embed_cached(cache, texts).vectors,
          meta |-> index_meta \o items,
          cache |-> embed_cached(cache, texts).cache]

\* TextIndex.add(items, texts) on an index holding the vectors index and
\* the metadata index_meta: _embed raises when model.encode does (it is
\* called for the texts the cache misses) and np.vstack raises on no
\* texts, both before self.index and self.meta are touched
text_index_add(index, index_meta, cache, items, texts, model_ok) ==
    IF (MissingTexts(cache, texts) # {} /\ ~model_ok) \/ texts = <<>>
    THEN [raised |-> TRUE, index |-> index, meta |-> index_meta, cache |-> cache]
    ELSE [raised |-> FALSE,
          index |-> index \o embed_cached(cache, texts).vectors,
          meta |-> index_meta \o items,
          cache |-> embed_cached(cache, texts).cache]

\* inner product of two vectors in fifths, in hundredths
InnerProduct(v, w) == 4 * (v[1] * w[1] + v[2] * w[2])

\* TextIndex.search on the stored vectors: the topn items by descending
\* inner product with the vector of the query
vector_search(items, vectors, query_vector, topn) ==
    LET scored == [i \in 1..Len(items) |->
                      <<items[i], InnerProduct(vectors[i], query_vector)>>]
        Closer(h1, h2) == h1[2] > h2[2]
    IN Prefix(StableSort(scored, Closer), topn)

\* build_index(pool) on the two caches: the items of the non-empty buckets
\* in the order they are embedded, their vectors, and the caches after
build_with_caches(text_cache, embed_cache, pool, user_center, radius_km) ==
    LET buckets == Buckets(pool, user_center, radius_km)
        order == BuildOrder(buckets)
        RECURSIVE ItemsFrom(_)
        ItemsFrom(i) == IF i > Len(order) THEN <<>>
                        ELSE buckets[order[i]] \o ItemsFrom(i + 1)
    IN CHOOSE built \in
         {[order |-> order, items |-> item_texts.items, vectors |-> embedded.vectors,
           index_by_cat |-> IndexAfter(buckets, Len(order)),
           text_cache |-> item_texts.cache, embed_cache |-> embedded.cache] :
            item_texts \in {[items |-> items, texts |-> t.texts, cache |-> t.cache] :
                               items \in {ItemsFrom(1)},
                               t \in {TextsOf(text_cache, ItemsFrom(1))}},
            embedded \in {embed_cached(embed_cache, TextsOf(text_cache, ItemsFrom(1)).texts)}} :
         TRUE

\* the hits of find_similar for one query on a built index: the query is
\* embedded through the caches and every matching bucket is searched
hits_with_caches(built, query, topn) ==
    LET Built(coarse) == coarse \in Range(built.order)
        searched == Filter(matching_buckets(query.category), Built)
        query_text == poi_text_cached(built.text_cache, query)
        query_vector == embed_cached(built.embed_cache, <<query_text.text>>)
        BucketHits(coarse, qv) ==
            LET Member(i) == BucketOf(built.items[i].category) = coarse
                members == Filter([i \in 1..Len(built.items) |-> i], Member)
            IN vector_search([j \in 1..Len(members) |-> built.items[members[j]]],
                             [j \in 1..Len(members) |-> built.vectors[members[j]]],
                             qv, topn)
        RECURSIVE HitsFrom(_, _)
        HitsFrom(b, qv) ==
            IF b > Len(searched) THEN <<>>
            ELSE BucketHits(searched[b], qv) \o HitsFrom(b + 1, qv)
    IN IF searched = <<>>
       THEN [hits |-> <<>>, text_cache |-> built.text_cache,
             embed_cache |-> built.embed_cache]
       ELSE CHOOSE found \in
              {[hits |-> HitsFrom(1, qv.vectors[1]), text_cache |-> query_text.cache,
                embed_cache |-> qv.cache] : qv \in {query_vector}} : TRUE

\* build_index(pool) followed by find_similar([query], topk_each) on the
\* two caches: the "results" list and the caches after
rank_with_caches(text_cache, embed_cache, pool, user_center, radius_km, query, topk_each, steep) ==
    CHOOSE ranked \in
      {LET deduped == DedupeHits(found.hits, {}, user_center, radius_km)
           NotSelf(hit) == ~SelfMatch(hit[1], query)
           others == Filter(deduped, NotSelf)
           scored == [i \in 1..Len(others) |->
                         <<others[i][1],
                           FinalScore(others[i][2], scenic_boost(others[i][1], steep))>>]
           Higher(h1, h2) == h1[2] > h2[2]
           top_hits == Prefix(StableSort(scored, Higher), topk_each)
       IN [raised |-> built.order = <<>>,
           index_by_cat |-> built.index_by_cat,
           results |-> [i \in 1..Len(top_hits) |->
                           [name |-> top_hits[i][1].name, at |-> top_hits[i][1].at,
                            score |-> <<top_hits[i][2]>>,
                            category |-> top_hits[i][1].category]],
           text_cache |-> found.text_cache,
           embed_cache |-> found.embed_cache] :
         built \in {build_with_caches(text_cache, embed_cache, pool, user_center,
                                      radius_km)},
         found \in {hits_with_caches(
                        build_with_caches(text_cache, embed_cache, pool, user_center,
                                          radius_km),
                        query, Max(30, topk_each * 5))}} : TRUE

(***************************************************************************)
(* Name resolution (poi_lookup_service.py).  A name stands for the POI     *)
(* dict that carries it; what Nominatim answers is fixed per name.         *)
(***************************************************************************)
\* resolve_one(name): None when best_match finds nothing, the resolved
\* record otherwise, or the exception of the adapter
resolve_one(name) ==
    CASE name = "nowhere" -> [status |-> "none", poi |-> <<>>]
      [] name = "timeout" -> [status |-> "raise", poi |-> <<>>]
      [] OTHER -> [status |-> "ok",
                   poi |-> <<[name |-> name, at |-> <<1, 0>>, category |-> "lake"]>>]

\* worker_count = max(1, min(len(pois), max_workers))
worker_count(pois, workers_setting) == Max(1, Min(Len(pois), workers_setting))

\* a pool that stores each result in the first free slot, that is in the
\* order the tasks complete
store_result_as_completed(results, task, outcome) ==
    LET slot == CHOOSE i \in 1..Len(results) :
                    results[i] = <<>> /\ \A j \in 1..(i - 1) : results[j] # <<>>
    IN [results EXCEPT ![slot] = <<outcome>>]

\* the future of a task receives the outcome of that task; executor.map
\* yields the results of the futures in the order of submission
store_result(results, task, outcome) == [results EXCEPT ![task] = <<outcome>>]

(***************************************************************************)
(* State.                                                                  *)
(***************************************************************************)
VARIABLES
    \* discover_pois_along_route: its arguments, what the sources returned,
    \* and the lists it computes
    call,               \* "none" before the call, "returned" or "raised" after
    end_pt,             \* (end_lat, end_lon)
    max_pois,           \* <<>> for None
    tolerance,          \* progressive_tolerance_km
    prioritize_scenic,
    osm_out,            \* outcome of discover_osm_pois
    ors_out,            \* outcome of discover_ors_pois
    progressive_pois,   \* as passed to _optimize_poi_selection
    selected_pois,
    final_pois,
    \* _build_route_path: its arguments, what ors_route answers for each
    \* profile, the profiles requested and the path returned
    route_call,         \* "none" before the call, "returned" after
    waypoints,
    destination,
    ors_responses,
    requested,
    route_path,
    \* SimilarPOIFinder: the pool and the finder's fields, and the last
    \* find_similar call
    regional_pois,      \* the pool handed to build_index
    radius_km,
    steep,              \* where relief_is_steep answers True
    user_center,        \* <<>> for None
    index_by_cat,
    build_call,         \* "none", "returned" or "raised"
    find_call,          \* "none", "returned" or "raised"
    query,
    topk_each,
    results,
    \* plan_alternative_routes: what the resolver answers for the target and
    \* for each regional candidate, whether the embedding model loads, what
    \* the collaborators answer on the way, and its progress
    target_res,
    cand_res,
    model_loads,
    plan_osm,
    plan_responses,
    plan_call,          \* "none", "alternatives", "returned" or "raised"
    plan_error,         \* what was raised
    alternatives,       \* alternative_map[target_name]
    routes,
    \* the caches shared by all ranking requests, and the results of the
    \* ranking requests made so far
    text_cache,         \* TEXT_CACHE
    embed_cache,        \* EMBED_CACHE
    run_results,
    requests,           \* the concurrent requests: their POI and progress
    \* the scoring of two hits by a finder: self.alpha (in tenths), the
    \* cosine and the scenic boost of each hit, and their final scores
    alpha,
    hit_a,
    hit_b,
    scores,             \* <<>> before the scoring
    \* the bucket of a candidate and the buckets searched for a query
    cand_category,      \* the raw category of the candidate
    query_category,     \* the category of the query
    bucket,             \* <<>> before build_index placed the candidate
    searched,           \* <<>> before find_similar computed the buckets
    \* a finder that is built a second time
    earlier_index,      \* index_by_cat as it was before the last build_index
    \* a TextIndex and the add calls made on it
    faiss_index,        \* the vectors of self.index in the order they were added
    meta,               \* self.meta
    add_call,           \* "none", or how the last add ended
    adds,               \* the number of add calls made
    \* _optimize_poi_selection called on its own
    opt_pois,           \* the candidates passed, annotated with their position
    opt_max_count,
    opt_selected,       \* the list returned
    opt_call,           \* "none" before the call, "returned" after
    \* point_to_line_distance_km called on coordinates in degrees
    proj_point,         \* (lat, lon) of the POI
    proj_start,         \* (lat, lon) of the start
    proj_end,           \* (lat, lon) of the destination
    proj_frame,         \* <<>> before the call, then what the call computed
    \* filter_progressive_pois and check_progressive_approach on one list
    prog_pois,          \* the ordered POI list
    prog_end,
    prog_tolerance,
    prog_filtered,      \* <<>> before filter_progressive_pois, then <<its result>>
    prog_checked,       \* <<>> before check_progressive_approach, then <<its result>>
    prog_again,         \* <<>>, then the filter and the check applied to the filtered list
    \* the poi_text calls made one after the other on TEXT_CACHE
    text_calls,         \* the POI passed and the text returned, call by call
    \* batch_resolve: its argument, the worker setting, the thread pool and
    \* the list it returns
    batch_pois,         \* the names of the POIs to resolve
    max_workers,        \* TRAVEL_MARVEL_RESOLVE_WORKERS
    work_queue,         \* the submitted tasks no worker has taken yet
    workers,            \* worker -> the task it runs, 0 when it has none
    futures,            \* task -> <<>> while pending, then <<its outcome>>
    completion,         \* the tasks in the order they completed
    batch_result,       \* the results collected so far
    batch_call          \* "none", "submitted", "returned" or "raised"

selVars == <<call, end_pt, max_pois, tolerance, prioritize_scenic, osm_out,
             ors_out, progressive_pois, selected_pois, final_pois>>

routeVars == <<route_call, waypoints, destination, ors_responses, requested, route_path>>

rankVars == <<regional_pois, radius_km, steep, user_center, index_by_cat, build_call,
              find_call, query, topk_each, results>>

planVars == <<target_res, cand_res, model_loads, plan_osm, plan_responses, plan_call,
              plan_error, alternatives, routes>>

cacheVars == <<text_cache, embed_cache, run_results, requests>>

scoreVars == <<alpha, hit_a, hit_b, scores>>

categoryVars == <<cand_category, query_category, bucket, searched>>

rebuildVars == <<earlier_index>>

textIndexVars == <<faiss_index, meta, add_call, adds>>

optVars == <<opt_pois, opt_max_count, opt_selected, opt_call>>

projVars == <<proj_point, proj_start, proj_end, proj_frame>>

progVars == <<prog_pois, prog_end, prog_tolerance, prog_filtered, prog_checked, prog_again>>

textVars == <<text_calls>>

batchVars == <<batch_pois, max_workers, work_queue, workers, futures, completion, batch_result, batch_call>>

vars == <<selVars, routeVars, rankVars, planVars, cacheVars, scoreVars, categoryVars, rebuildVars, textIndexVars, optVars, projVars, progVars, textVars, batchVars>>

SelIdle ==
    /\ call = "none"
    /\ end_pt = Start
    /\ max_pois = <<>>
    /\ tolerance = 0
    /\ prioritize_scenic = FALSE
    /\ osm_out = [ok |-> FALSE, pois |-> <<>>]
    /\ ors_out = [ok |-> FALSE, pois |-> <<>>]
    /\ progressive_pois = <<>>
    /\ selected_pois = <<>>
    /\ final_pois = <<>>

RouteIdle ==
    /\ route_call = "none"
    /\ waypoints = <<>>
    /\ destination = Start
    /\ ors_responses = <<>>
    /\ requested = <<>>
    /\ route_path = <<>>

\* the empty dict
EmptyIndex == [coarse \in {} |-> <<>>]

Center == <<0, 0>>

RankIdle ==
    /\ regional_pois = <<>>
    /\ radius_km = 0
    /\ steep = {}
    /\ user_center = <<>>
    /\ index_by_cat = EmptyIndex
    /\ build_call = "none"
    /\ find_call = "none"
    /\ query = <<>>
    /\ topk_each = 0
    /\ results = <<>>

Unresolved == [status |-> "none", poi |-> <<>>]
ResolveRaised == [status |-> "raise", poi |-> <<>>]
Resolved(p) == [status |-> "ok", poi |-> <<p>>]

PlanIdle ==
    /\ target_res = Unresolved
    /\ cand_res = <<>>
    /\ model_loads = TRUE
    /\ plan_osm = [ok |-> FALSE, pois |-> <<>>]
    /\ plan_responses = <<>>
    /\ plan_call = "none"
    /\ plan_error = ""
    /\ alternatives = <<>>
    /\ routes = <<>>

EmptyCache == [key \in {} |-> <<>>]

CacheIdle ==
    /\ text_cache = EmptyCache
    /\ embed_cache = EmptyCache
    /\ run_results = <<>>
    /\ requests = <<>>

ScoreIdle ==
    /\ alpha = Alpha10
    /\ hit_a = [cosine |-> 0, boost |-> 0]
    /\ hit_b = [cosine |-> 0, boost |-> 0]
    /\ scores = <<>>

CategoryIdle ==
    /\ cand_category = "unknown"
    /\ query_category = "unknown"
    /\ bucket = <<>>
    /\ searched = <<>>

RebuildIdle == earlier_index = EmptyIndex

TextIndexIdle ==
    /\ faiss_index = <<>>
    /\ meta = <<>>
    /\ add_call = "none"
    /\ adds = 0

OptIdle ==
    /\ opt_pois = <<>>
    /\ opt_max_count = 1
    /\ opt_selected = <<>>
    /\ opt_call = "none"

ProjIdle ==
    /\ proj_point = <<0, 0>>
    /\ proj_start = <<0, 0>>
    /\ proj_end = <<0, 0>>
    /\ proj_frame = <<>>

ProgIdle ==
    /\ prog_pois = <<>>
    /\ prog_end = Start
    /\ prog_tolerance = 0
    /\ prog_filtered = <<>>
    /\ prog_checked = <<>>
    /\ prog_again = <<>>

TextIdle == text_calls = <<>>

BatchIdle ==
    /\ batch_pois = <<>>
    /\ max_workers = 4
    /\ work_queue = <<>>
    /\ workers = <<>>
    /\ futures = <<>>
    /\ completion = <<>>
    /\ batch_result = <<>>
    /\ batch_call = "none"

(***************************************************************************)
(* discover_pois_along_route                                               *)
(***************************************************************************)
Ends == {<<4, 0>>, <<0, 0>>}
Tolerances == {0, 1}
MaxPoisArgs == {<<>>, <<0>>, <<1>>, <<2>>, <<3>>}

Raised == [ok |-> FALSE, pois |-> <<>>]
Returned(pois) == [ok |-> TRUE, pois |-> pois]

\* parse_overpass_elements builds POIs without a score
OsmOutcomes ==
    {Raised} \cup {Returned(<<>>)} \cup {Returned(<<NewPoi(at, <<>>)>>) : at \in Places}

\* discover_ors_pois may be absent (ORS_POIS_AVAILABLE false), which
\* contributes nothing as a raise does
OrsOutcomes ==
    {Raised} \cup
    {Returned(l) : l \in SeqsUpTo({NewPoi(at, sc) : at \in Places, sc \in Scores}, MaxOrs)}

InitSelect ==
    /\ BatchIdle
    /\ TextIdle
    /\ ProgIdle
    /\ ProjIdle
    /\ OptIdle
    /\ TextIndexIdle
    /\ RebuildIdle
    /\ call = "none"
    /\ end_pt \in Ends
    /\ max_pois \in MaxPoisArgs
    /\ tolerance \in Tolerances
    /\ prioritize_scenic \in BOOLEAN
    /\ osm_out \in OsmOutcomes
    /\ ors_out \in OrsOutcomes
    /\ progressive_pois = <<>>
    /\ selected_pois = <<>>
    /\ final_pois = <<>>
    /\ RouteIdle
    /\ RankIdle
    /\ PlanIdle
    /\ CacheIdle
    /\ ScoreIdle
    /\ CategoryIdle

\* the value of max_pois after the defaulting at the top of the function
EffectiveMaxPois ==
    IF max_pois = <<>> THEN AutoMaxPois(distance_km(Start, end_pt)) ELSE max_pois[1]

\* a call that lets the exception of a POI source through
DiscoverPoisAlongRoutePropagating ==
    /\ call = "none"
    /\ LET r == discover_pois_along_route(Start, end_pt, max_pois, tolerance,
                                          prioritize_scenic, osm_out, ors_out)
           failed == r.raised \/ ~osm_out.ok \/ ~ors_out.ok
       IN /\ call' = IF failed THEN "raised" ELSE "returned"
          /\ progressive_pois' = IF failed THEN <<>> ELSE r.progressive_pois
          /\ selected_pois' = IF failed THEN <<>> ELSE r.selected_pois
          /\ final_pois' = IF failed THEN <<>> ELSE r.final_pois
    /\ UNCHANGED <<end_pt, max_pois, tolerance, prioritize_scenic, osm_out, ors_out>>
    /\ UNCHANGED <<routeVars, rankVars, planVars, cacheVars, scoreVars, categoryVars, rebuildVars, textIndexVars, optVars, projVars, progVars, textVars, batchVars>>

\* discover_pois_along_route(start, end, max_pois, tolerance,
\* prioritize_scenic) with the sources answering osm_out and ors_out
DiscoverPoisAlongRoute ==
    /\ call = "none"
    /\ LET r == discover_pois_along_route(Start, end_pt, max_pois, tolerance,
                                          prioritize_scenic, osm_out, ors_out)
       IN /\ call' = IF r.raised THEN "raised" ELSE "returned"
          /\ progressive_pois' = r.progressive_pois
          /\ selected_pois' = r.selected_pois
          /\ final_pois' = r.final_pois
    /\ UNCHANGED <<end_pt, max_pois, tolerance, prioritize_scenic, osm_out, ors_out>>
    /\ UNCHANGED <<routeVars, rankVars, planVars, cacheVars, scoreVars, categoryVars, rebuildVars, textIndexVars, optVars, projVars, progVars, textVars, batchVars>>

NextSelect == DiscoverPoisAlongRoute

SpecSelect == InitSelect /\ [][NextSelect]_vars

(***************************************************************************)
(* _build_route_path                                                       *)
(***************************************************************************)
\* longest waypoint list handed to _build_route_path
MaxWaypoints == 1

\* routes as ors_route returns them: lists of [lon, lat] coordinates, here
\* also with a coordinate that has lost its latitude
OrsRoutes == {<<>>, <<<<7>>>>, <<<<7, 8>>>>, <<<<7>>, <<5, 6>>>>}

OrsResponses ==
    {[ok |-> FALSE, routes |-> <<>>], [ok |-> TRUE, routes |-> <<>>]}
    \cup {[ok |-> TRUE, routes |-> <<r>>] : r \in OrsRoutes}

InitRoute ==
    /\ BatchIdle
    /\ TextIdle
    /\ ProgIdle
    /\ ProjIdle
    /\ OptIdle
    /\ TextIndexIdle
    /\ RebuildIdle
    /\ SelIdle
    /\ RankIdle
    /\ PlanIdle
    /\ CacheIdle
    /\ ScoreIdle
    /\ CategoryIdle
    /\ route_call = "none"
    /\ waypoints \in SeqsUpTo({NewPoi(at, <<>>) : at \in Places}, MaxWaypoints)
    /\ destination \in Places
    /\ ors_responses \in [1..Len(profiles) -> OrsResponses]
    /\ requested = <<>>
    /\ route_path = <<>>

BuildRoutePath ==
    /\ route_call = "none"
    /\ LET r == build_route_path(Start, waypoints, destination, ors_responses)
       IN /\ requested' = r.requested
          /\ route_path' = r.route_path
    /\ route_call' = "returned"
    /\ UNCHANGED <<waypoints, destination, ors_responses>>
    /\ UNCHANGED <<selVars, rankVars, planVars, cacheVars, scoreVars, categoryVars, rebuildVars, textIndexVars, optVars, projVars, progVars, textVars, batchVars>>

NextRoute == BuildRoutePath

SpecRoute == InitRoute /\ [][NextRoute]_vars

(***************************************************************************)
(* SimilarPOIFinder.build_index and find_similar                           *)
(***************************************************************************)
\* longest candidate pool
MaxPool == 2

Radii == {2}
TopKs == {0, 1, 2}

Poi(n, at, c) == [name |-> n, at |-> at, category |-> c]

\* the POI dicts of the model, as the resolver returns them: within and
\* beyond the radius, a subtype and its coarse category, a label written in
\* upper case, one that is no known category, and two names at one place
RankPois ==
    {Poi("a", <<1, 0>>, "lake"), Poi("b", <<1, 0>>, "lake"),
     Poi("a", <<1, 0>>, "lagoon"), Poi("b", <<3, 0>>, "lake"),
     Poi("a", <<3, 0>>, "lagoon"), Poi("a", <<1, 0>>, "Castle"),
     Poi("b", <<1, 0>>, "zoo")}

InitRank ==
    /\ BatchIdle
    /\ TextIdle
    /\ ProgIdle
    /\ ProjIdle
    /\ OptIdle
    /\ TextIndexIdle
    /\ RebuildIdle
    /\ SelIdle
    /\ RouteIdle
    /\ PlanIdle
    /\ CacheIdle
    /\ ScoreIdle
    /\ CategoryIdle
    /\ regional_pois \in SeqsUpTo(RankPois, MaxPool)
    /\ radius_km \in Radii
    /\ steep \in {{}, {<<1, 0>>}}
    /\ user_center = <<>>
    /\ index_by_cat = EmptyIndex
    /\ build_call = "none"
    /\ find_call = "none"
    /\ query = <<>>
    /\ topk_each = 0
    /\ results = <<>>

\* build_index(regional_pois, user_center=Center); the embedding of the
\* bucket after the first n may raise, and what was built before stays
BuildIndex ==
    /\ build_call = "none"
    /\ user_center' = <<Center>>
    /\ LET buckets == Buckets(regional_pois, Center, radius_km)
           total == Len(BuildOrder(buckets))
       IN \E n \in 0..total :
            /\ index_by_cat' = IndexAfter(buckets, n)
            /\ build_call' = IF n = total THEN "returned" ELSE "raised"
    /\ UNCHANGED <<regional_pois, radius_km, steep, find_call, query, topk_each, results>>
    /\ UNCHANGED <<selVars, routeVars, planVars, cacheVars, scoreVars, categoryVars, rebuildVars, textIndexVars, optVars, projVars, progVars, textVars, batchVars>>

\* find_similar([q], topk_each=k)
FindSimilar ==
    /\ find_call = "none"
    /\ \E q \in RankPois, k \in TopKs :
        /\ query' = <<q>>
        /\ topk_each' = k
        /\ IF index_by_cat = EmptyIndex
           THEN /\ find_call' = "raised"
                /\ results' = <<>>
           ELSE /\ find_call' = "returned"
                /\ results' = find_similar_one(index_by_cat, user_center[1], radius_km,
                                               q, k, steep)
    /\ UNCHANGED <<regional_pois, radius_km, steep, user_center, index_by_cat, build_call>>
    /\ UNCHANGED <<selVars, routeVars, planVars, cacheVars, scoreVars, categoryVars, rebuildVars, textIndexVars, optVars, projVars, progVars, textVars, batchVars>>

NextRank == BuildIndex \/ FindSimilar

SpecRank == InitRank /\ [][NextRank]_vars

(***************************************************************************)
(* plan_alternative_routes and discover_local_alternatives                 *)
(***************************************************************************)
\* the default progressive_tolerance_km of discover_pois_along_route
DefaultTolerance == 2

PlanTargets == {Poi("b", <<3, 0>>, "lake"), Poi("a", <<1, 0>>, "Castle")}

PlanCandidates ==
    {Poi("a", <<1, 0>>, "lake"), Poi("a", <<1, 0>>, "lagoon"),
     Poi("b", <<3, 0>>, "lake"), Poi("a", <<1, 0>>, "Castle")}

\* what ors_route answers for the three profiles
PlanResponses ==
    {[i \in 1..Len(profiles) |-> [ok |-> FALSE, routes |-> <<>>]],
     [i \in 1..Len(profiles) |->
        IF i = 2 THEN [ok |-> TRUE, routes |-> <<<<<<7, 8>>>>>>]
        ELSE [ok |-> FALSE, routes |-> <<>>]]}

InitPlan ==
    /\ BatchIdle
    /\ TextIdle
    /\ ProgIdle
    /\ ProjIdle
    /\ OptIdle
    /\ TextIndexIdle
    /\ RebuildIdle
    /\ SelIdle
    /\ CacheIdle
    /\ ScoreIdle
    /\ CategoryIdle
    /\ RouteIdle
    /\ regional_pois = <<>>
    /\ radius_km \in Radii
    /\ steep \in {{}, {<<1, 0>>}}
    /\ user_center = <<>>
    /\ index_by_cat = EmptyIndex
    /\ build_call = "none"
    /\ find_call = "none"
    /\ query = <<>>
    /\ topk_each = 0
    /\ results = <<>>
    /\ target_res \in {Unresolved, ResolveRaised} \cup {Resolved(p) : p \in PlanTargets}
    /\ cand_res \in SeqsUpTo({Unresolved, ResolveRaised}
                              \cup {Resolved(p) : p \in PlanCandidates}, MaxPool)
    /\ model_loads \in BOOLEAN
    /\ plan_osm \in {Raised, Returned(<<NewPoi(<<1, 0>>, <<>>)>>)}
    /\ plan_responses \in PlanResponses
    /\ plan_call = "none"
    /\ plan_error = ""
    /\ alternatives = <<>>
    /\ routes = <<>>

\* the body of discover_local_alternatives from the finder on, for the
\* resolved target and candidates: build_index embeds the first n buckets
DiscoverWithFinder(target, resolved_candidates, k, n) ==
    LET buckets == Buckets(resolved_candidates, Center, radius_km)
        total == Len(BuildOrder(buckets))
        index == IndexAfter(buckets, n)
        built == n = total
        found == built /\ index # EmptyIndex
        suggestion == IF found
                      THEN find_similar_one(index, Center, radius_km, target, k, steep)
                      ELSE FallbackResults(resolved_candidates, k)
    IN /\ regional_pois' = resolved_candidates
       /\ user_center' = <<Center>>
       /\ index_by_cat' = index
       /\ build_call' = IF built THEN "returned" ELSE "raised"
       /\ find_call' = IF ~built THEN "none" ELSE IF found THEN "returned" ELSE "raised"
       /\ query' = <<target>>
       /\ topk_each' = k
       /\ results' = IF found THEN suggestion ELSE <<>>
       /\ alternatives' = AltList(suggestion, resolved_candidates)
       /\ plan_call' = "alternatives"
       /\ plan_error' = ""

\* the call of discover_local_alternatives at the top of
\* plan_alternative_routes, with topk_each = k
DiscoverLocalAlternatives ==
    /\ plan_call = "none"
    /\ \E k \in TopKs \ {0} :
        /\ LET resolved_candidates == NotNone(cand_res)
               Fail(what) == /\ plan_call' = "raised"
                             /\ plan_error' = what
                             /\ UNCHANGED <<rankVars, alternatives>>
           IN IF target_res.status = "raise" THEN Fail("resolver raised for the target")
              ELSE IF target_res.status = "none"
                   THEN Fail("Failed to resolve any target POIs via Nominatim.")
              ELSE IF \E i \in 1..Len(cand_res) : cand_res[i].status = "raise"
                   THEN Fail("resolver raised for a candidate")
              ELSE IF resolved_candidates = <<>>
                   THEN Fail("Failed to resolve any regional candidate POIs via Nominatim.")
              ELSE IF ~model_loads THEN Fail("embedding model failed to load")
              ELSE \E n \in 0..Len(BuildOrder(Buckets(resolved_candidates, Center,
                                                                radius_km))) :
                      /\ DiscoverWithFinder(target_res.poi[1], resolved_candidates, k, n)
                      /\ UNCHANGED <<radius_km, steep>>
    /\ UNCHANGED <<target_res, cand_res, model_loads, plan_osm, plan_responses, routes>>
    /\ UNCHANGED <<selVars, routeVars, cacheVars, scoreVars, categoryVars, rebuildVars, textIndexVars, optVars, projVars, progVars, textVars, batchVars>>

\* one iteration of the loop over the alternatives: the way-points to the
\* destination and the route path through them
PlanRoute ==
    /\ plan_call = "alternatives"
    /\ Len(routes) < Len(alternatives)
    /\ LET dest == alternatives[Len(routes) + 1].destination
           found == discover_pois_along_route(Start, dest.at, <<>>, DefaultTolerance,
                                              TRUE, plan_osm, Raised)
           path == build_route_path(Start, found.final_pois, dest.at, plan_responses)
       IN IF found.raised
          THEN /\ plan_call' = "raised"
               /\ plan_error' = "waypoint selection raised"
               /\ UNCHANGED routes
          ELSE /\ routes' = Append(routes, [destination |-> dest, score |-> dest.score,
                                            route_pois |-> found.final_pois,
                                            route_path |-> path.route_path])
               /\ UNCHANGED <<plan_call, plan_error>>
    /\ UNCHANGED <<target_res, cand_res, model_loads, plan_osm, plan_responses, alternatives>>
    /\ UNCHANGED <<selVars, routeVars, rankVars, cacheVars, scoreVars, categoryVars, rebuildVars, textIndexVars, optVars, projVars, progVars, textVars, batchVars>>

\* return {target_name: routes}
PlanReturn ==
    /\ plan_call = "alternatives"
    /\ Len(routes) = Len(alternatives)
    /\ plan_call' = "returned"
    /\ UNCHANGED <<target_res, cand_res, model_loads, plan_osm, plan_responses,
                   plan_error, alternatives, routes>>
    /\ UNCHANGED <<selVars, routeVars, rankVars, cacheVars, scoreVars, categoryVars, rebuildVars, textIndexVars, optVars, projVars, progVars, textVars, batchVars>>

NextPlan == DiscoverLocalAlternatives \/ PlanRoute \/ PlanReturn

SpecPlan == InitPlan /\ [][NextPlan]_vars

(***************************************************************************)
(* The same ranking request made twice, on caches that hold anything.      *)
(***************************************************************************)
DescPoi(n, at, c, d) == [name |-> n, at |-> at, category |-> c, desc |-> d]

\* two POIs that differ in the description only, and so share a text-cache
\* key, and a subtype
CachePois ==
    {DescPoi("a", <<1, 0>>, "lake", ""), DescPoi("a", <<1, 0>>, "lake", "alpine"),
     DescPoi("b", <<1, 1>>, "lagoon", "")}

\* what an earlier request may have left in TEXT_CACHE
TextCaches ==
    {EmptyCache} \cup
    {[key \in {text_cache_key(p)} |-> build_text(q)] : p, q \in CachePois}

\* what an earlier request may have left in EMBED_CACHE
EmbedCaches ==
    {EmptyCache} \cup
    {[key \in {build_text(p)} |-> encode_text(build_text(q))] : p, q \in CachePois}

InitRerun ==
    /\ BatchIdle
    /\ TextIdle
    /\ ProgIdle
    /\ ProjIdle
    /\ OptIdle
    /\ TextIndexIdle
    /\ RebuildIdle
    /\ SelIdle
    /\ ScoreIdle
    /\ CategoryIdle
    /\ RouteIdle
    /\ PlanIdle
    /\ regional_pois \in SeqsUpTo(CachePois, MaxPool)
    /\ radius_km \in Radii
    /\ steep = {<<1, 1>>}
    /\ user_center = <<Center>>
    /\ index_by_cat = EmptyIndex
    /\ build_call = "none"
    /\ find_call = "none"
    /\ query \in {<<q>> : q \in CachePois}
    /\ topk_each \in TopKs \ {0}
    /\ results = <<>>
    /\ text_cache \in TextCaches
    /\ embed_cache \in EmbedCaches
    /\ run_results = <<>>
    /\ requests = <<>>

\* finder.build_index(regional_pois, user_center) and
\* finder.find_similar([query], topk_each) on a new finder; the request is
\* made twice
RankOnCaches ==
    /\ Len(run_results) < 2
    /\ \E r \in {rank_with_caches(text_cache, embed_cache, regional_pois, Center,
                                   radius_km, query[1], topk_each, steep)} :
          /\ index_by_cat' = r.index_by_cat
          /\ build_call' = "returned"
          /\ find_call' = IF r.raised THEN "raised" ELSE "returned"
          /\ results' = IF r.raised THEN <<>> ELSE r.results
          /\ run_results' = Append(run_results,
                                   [raised |-> r.raised,
                                    results |-> IF r.raised THEN <<>> ELSE r.results])
          /\ text_cache' = IF r.raised THEN text_cache ELSE r.text_cache
          /\ embed_cache' = IF r.raised THEN embed_cache ELSE r.embed_cache
    /\ UNCHANGED <<regional_pois, radius_km, steep, user_center, query, topk_each,
                   requests>>
    /\ UNCHANGED <<selVars, routeVars, planVars, scoreVars, categoryVars, rebuildVars, textIndexVars, optVars, projVars, progVars, textVars, batchVars>>

NextRerun == RankOnCaches

SpecRerun == InitRerun /\ [][NextRerun]_vars

(***************************************************************************)
(* The final score of find_similar, for the values alpha, cosine and the   *)
(* scenic boost can take.                                                  *)
(***************************************************************************)
\* SimilarPOIFinder.__init__ takes float(alpha) as it is; in tenths
Alphas == {0 - 5, 0, 3, 7, 10, 15}

\* inner products of normalised vectors, in hundredths: within [-1, 1] up
\* to rounding
Cosines == {0 - 100, 0, 50, 100, 101}

\* values of scenic_boost, in hundredths: it clamps to [0, 0.3]
Boosts == {0, 12, 30}

InitScore ==
    /\ BatchIdle
    /\ TextIdle
    /\ ProgIdle
    /\ ProjIdle
    /\ OptIdle
    /\ TextIndexIdle
    /\ RebuildIdle
    /\ SelIdle
    /\ CategoryIdle
    /\ RouteIdle
    /\ RankIdle
    /\ PlanIdle
    /\ text_cache = EmptyCache
    /\ embed_cache = EmptyCache
    /\ run_results = <<>>
    /\ requests = <<>>
    /\ alpha \in Alphas
    /\ hit_a \in [cosine : Cosines, boost : Boosts]
    /\ hit_b \in [cosine : Cosines, boost : Boosts]
    /\ scores = <<>>

\* the scoring loop of find_similar over the two hits
ScoreHits ==
    /\ scores = <<>>
    /\ scores' = <<final_score(alpha, hit_a.cosine, hit_a.boost),
                   final_score(alpha, hit_b.cosine, hit_b.boost)>>
    /\ UNCHANGED <<alpha, hit_a, hit_b>>
    /\ UNCHANGED <<selVars, routeVars, rankVars, planVars, cacheVars, categoryVars, rebuildVars, textIndexVars, optVars, projVars, progVars, textVars, batchVars>>

NextScore == ScoreHits

SpecScore == InitScore /\ [][NextScore]_vars

(***************************************************************************)
(* Two ranking requests running at the same time on the shared caches:     *)
(* each turns its candidate into a text (poi_text) and the text into a     *)
(* vector (TextIndex._embed).  A step is one access to a cache; what a     *)
(* request computes between two accesses is local to it.                   *)
(***************************************************************************)
Requests == {1, 2}

InitConcurrent ==
    /\ BatchIdle
    /\ TextIdle
    /\ ProgIdle
    /\ ProjIdle
    /\ OptIdle
    /\ TextIndexIdle
    /\ RebuildIdle
    /\ SelIdle
    /\ RouteIdle
    /\ RankIdle
    /\ PlanIdle
    /\ ScoreIdle
    /\ CategoryIdle
    /\ text_cache = EmptyCache
    /\ embed_cache = EmptyCache
    /\ run_results = <<>>
    /\ requests \in [Requests -> [poi : CachePois, pc : {"text_check"},
                                   text : {<<>>}, vector : {<<>>}]]

\* poi_text: "if cache_key in TEXT_CACHE: return TEXT_CACHE[cache_key]",
\* and on a miss the text is built
TextCheck(r) ==
    /\ requests[r].pc = "text_check"
    /\ LET cache_key == text_cache_key(requests[r].poi)
       IN requests' =
            [requests EXCEPT ![r] =
                IF cache_key \in DOMAIN text_cache
                THEN [@ EXCEPT !.text = text_cache[cache_key], !.pc = "embed_check"]
                ELSE [@ EXCEPT !.text = build_text(requests[r].poi), !.pc = "text_set"]]
    /\ UNCHANGED <<text_cache, embed_cache, run_results>>
    /\ UNCHANGED <<selVars, routeVars, rankVars, planVars, scoreVars, categoryVars, rebuildVars, textIndexVars, optVars, projVars, progVars, textVars, batchVars>>

\* poi_text: TEXT_CACHE.set(cache_key, text)
TextSet(r) ==
    /\ requests[r].pc = "text_set"
    /\ text_cache' = CacheSet(text_cache, text_cache_key(requests[r].poi),
                              requests[r].text)
    /\ requests' = [requests EXCEPT ![r].pc = "embed_check"]
    /\ UNCHANGED <<embed_cache, run_results>>
    /\ UNCHANGED <<selVars, routeVars, rankVars, planVars, scoreVars, categoryVars, rebuildVars, textIndexVars, optVars, projVars, progVars, textVars, batchVars>>

\* _embed: "if key in EMBED_CACHE: outputs[idx] = EMBED_CACHE[key]", and
\* on a miss the text is encoded
EmbedCheck(r) ==
    /\ requests[r].pc = "embed_check"
    /\ requests' =
         [requests EXCEPT ![r] =
             IF requests[r].text \in DOMAIN embed_cache
             THEN [@ EXCEPT !.vector = embed_cache[requests[r].text], !.pc = "done"]
             ELSE [@ EXCEPT !.vector = encode_text(requests[r].text),
                            !.pc = "embed_set"]]
    /\ UNCHANGED <<text_cache, embed_cache, run_results>>
    /\ UNCHANGED <<selVars, routeVars, rankVars, planVars, scoreVars, categoryVars, rebuildVars, textIndexVars, optVars, projVars, progVars, textVars, batchVars>>

\* _embed: EMBED_CACHE.set(key, vector)
EmbedSet(r) ==
    /\ requests[r].pc = "embed_set"
    /\ embed_cache' = CacheSet(embed_cache, requests[r].text, requests[r].vector)
    /\ requests' = [requests EXCEPT ![r].pc = "done"]
    /\ UNCHANGED <<text_cache, run_results>>
    /\ UNCHANGED <<selVars, routeVars, rankVars, planVars, scoreVars, categoryVars, rebuildVars, textIndexVars, optVars, projVars, progVars, textVars, batchVars>>

NextConcurrent ==
    \/ \E r \in Requests : TextCheck(r)
    \/ \E r \in Requests : TextSet(r)
    \/ \E r \in Requests : EmbedCheck(r)
    \/ \E r \in Requests : EmbedSet(r)

SpecConcurrent == InitConcurrent /\ [][NextConcurrent]_vars

(***************************************************************************)
(* The bucket build_index puts a candidate in, and the buckets find_similar *)
(* searches for a query, for the labels of the category mapping.           *)
(***************************************************************************)
\* the coarse categories and the members of their equivalence sets
EquivLabels == UNION {CATEGORY_EQUIV(CoarseLabels[i]) : i \in 1..Len(CoarseLabels)}

CategoryLabels == Range(CoarseLabels) \cup EquivLabels

InitCategory ==
    /\ BatchIdle
    /\ TextIdle
    /\ ProgIdle
    /\ ProjIdle
    /\ OptIdle
    /\ TextIndexIdle
    /\ RebuildIdle
    /\ SelIdle
    /\ ScoreIdle
    /\ RouteIdle
    /\ RankIdle
    /\ PlanIdle
    /\ CacheIdle
    /\ cand_category \in CategoryLabels
    /\ query_category \in CategoryLabels
    /\ bucket = <<>>
    /\ searched = <<>>

\* build_index: the bucket the candidate is appended to
PlaceCandidate ==
    /\ bucket = <<>>
    /\ bucket' = <<BucketOf(cand_category)>>
    /\ UNCHANGED <<cand_category, query_category, searched>>
    /\ UNCHANGED <<selVars, routeVars, rankVars, planVars, cacheVars, scoreVars, rebuildVars, textIndexVars, optVars, projVars, progVars, textVars, batchVars>>

\* find_similar: buckets = matching_buckets(category)
FanOutQuery ==
    /\ searched = <<>>
    /\ searched' = matching_buckets(query_category)
    /\ UNCHANGED <<cand_category, query_category, bucket>>
    /\ UNCHANGED <<selVars, routeVars, rankVars, planVars, cacheVars, scoreVars, rebuildVars, textIndexVars, optVars, projVars, progVars, textVars, batchVars>>

NextCategory == PlaceCandidate \/ FanOutQuery

SpecCategory == InitCategory /\ [][NextCategory]_vars

(***************************************************************************)
(* A finder whose build_index is called twice, with another pool and       *)
(* another centre.                                                         *)
(***************************************************************************)
\* candidates near the first centre, near the second, of no known category,
\* and without coordinates
RebuildPois ==
    {Poi("a", <<1, 0>>, "lake"), Poi("a", <<3, 0>>, "lagoon"),
     Poi("b", <<1, 0>>, "zoo"), Poi("c", <<>>, "lake")}

Centers == {<<0, 0>>, <<4, 0>>}

InitRebuild ==
    /\ BatchIdle
    /\ TextIdle
    /\ ProgIdle
    /\ ProjIdle
    /\ OptIdle
    /\ TextIndexIdle
    /\ SelIdle
    /\ RouteIdle
    /\ PlanIdle
    /\ CacheIdle
    /\ ScoreIdle
    /\ CategoryIdle
    /\ regional_pois = <<>>
    /\ radius_km \in Radii
    /\ steep = {}
    /\ user_center = <<>>
    /\ index_by_cat = EmptyIndex
    /\ build_call = "none"
    /\ find_call = "none"
    /\ query = <<>>
    /\ topk_each = 0
    /\ results = <<>>
    /\ earlier_index = EmptyIndex

\* build_index(pool, user_center=center), the first or the second call on
\* this finder; the embedding of the bucket after the first n may raise
BuildIndexAgain ==
    /\ build_call \in {"none", "returned", "raised"}
    /\ \E pool \in SeqsUpTo(RebuildPois, MaxPool), center \in Centers :
         LET total == Len(BuildOrder(Buckets(pool, center, radius_km)))
         IN \E n \in 0..total :
              /\ regional_pois' = pool
              /\ user_center' = <<center>>
              /\ earlier_index' = index_by_cat
              /\ index_by_cat' = build_index(index_by_cat, pool, center, radius_km, n)
              /\ build_call' = IF build_call = "none"
                               THEN (IF n = total THEN "returned" ELSE "raised")
                               ELSE (IF n = total THEN "rebuilt" ELSE "reraised")
    /\ UNCHANGED <<radius_km, steep, find_call, query, topk_each, results>>
    /\ UNCHANGED <<selVars, routeVars, planVars, cacheVars, scoreVars, categoryVars, textIndexVars, optVars, projVars, progVars, textVars, batchVars>>

NextRebuild == BuildIndexAgain

SpecRebuild == InitRebuild /\ [][NextRebuild]_vars

(***************************************************************************)
(* TextIndex.add called repeatedly on one index.                           *)
(***************************************************************************)
\* most add calls on the index
MaxAdds == 3

IndexPois == {DescPoi("a", <<1, 0>>, "lake", ""), DescPoi("b", <<1, 1>>, "lagoon", "")}

\* what earlier requests may have left in EMBED_CACHE
IndexCaches ==
    {EmptyCache} \cup
    {[key \in {build_text(p)} |-> encode_text(build_text(p))] : p \in IndexPois}

InitTextIndex ==
    /\ BatchIdle
    /\ TextIdle
    /\ ProgIdle
    /\ ProjIdle
    /\ OptIdle
    /\ SelIdle
    /\ RouteIdle
    /\ RankIdle
    /\ PlanIdle
    /\ ScoreIdle
    /\ CategoryIdle
    /\ RebuildIdle
    /\ text_cache = EmptyCache
    /\ embed_cache \in IndexCaches
    /\ run_results = <<>>
    /\ requests = <<>>
    /\ faiss_index = <<>>
    /\ meta = <<>>
    /\ add_call = "none"
    /\ adds = 0

\* index.add(items, [poi_text(item) for item in items]), with a model
\* whose encode works or raises
TextIndexAdd ==
    /\ adds < MaxAdds
    /\ \E items \in SeqsUpTo(IndexPois, MaxPool), model_ok \in BOOLEAN :
         \E r \in {text_index_add(faiss_index, meta, embed_cache, items,
                                  [i \in 1..Len(items) |-> build_text(items[i])],
                                  model_ok)} :
            /\ faiss_index' = r.index
            /\ meta' = r.meta
            /\ embed_cache' = r.cache
            /\ add_call' = IF r.raised THEN "raised" ELSE "returned"
    /\ adds' = adds + 1
    /\ UNCHANGED <<text_cache, run_results, requests>>
    /\ UNCHANGED <<selVars, routeVars, rankVars, planVars, scoreVars, categoryVars, rebuildVars, optVars, projVars, progVars, textVars, batchVars>>

NextTextIndex == TextIndexAdd

SpecTextIndex == InitTextIndex /\ [][NextTextIndex]_vars

(***************************************************************************)
(* _optimize_poi_selection on candidate lists of its own.                  *)
(***************************************************************************)
\* longest candidate list passed to _optimize_poi_selection
MaxCandidates == 3

OptEnd == <<4, 0>>

\* two places at one position along the route, and one further on
OptPlaces == {<<1, 0>>, <<1, 1>>, <<3, 0>>}

\* no score, and the lowest and a higher score
OptScores == {<<>>, <<0>>, <<1>>}

\* candidates as discover_pois_along_route annotates them
OptPois == {Annotate(NewPoi(at, sc), Start, OptEnd) : at \in OptPlaces, sc \in OptScores}

MaxCounts == {1, 2, 3}

InitOptimize ==
    /\ BatchIdle
    /\ TextIdle
    /\ ProgIdle
    /\ ProjIdle
    /\ SelIdle
    /\ RouteIdle
    /\ RankIdle
    /\ PlanIdle
    /\ CacheIdle
    /\ ScoreIdle
    /\ CategoryIdle
    /\ RebuildIdle
    /\ TextIndexIdle
    /\ opt_pois \in SeqsUpTo(OptPois, MaxCandidates)
    /\ opt_max_count \in MaxCounts
    /\ opt_selected = <<>>
    /\ opt_call = "none"

\* selected_pois = _optimize_poi_selection(opt_pois, opt_max_count)
OptimizePoiSelection ==
    /\ opt_call = "none"
    /\ \E r \in {optimize_poi_selection(opt_pois, opt_max_count, LineLenSq(Start, OptEnd))} :
         opt_selected' = r
    /\ opt_call' = "returned"
    /\ UNCHANGED <<opt_pois, opt_max_count>>
    /\ UNCHANGED <<selVars, routeVars, rankVars, planVars, cacheVars, scoreVars, categoryVars, rebuildVars, textIndexVars, projVars, progVars, textVars, batchVars>>

NextOptimize == OptimizePoiSelection

SpecOptimize == InitOptimize /\ [][NextOptimize]_vars

(***************************************************************************)
(* point_to_line_distance_km as the waypoint selector calls it.            *)
(***************************************************************************)
\* latitudes and longitudes in degrees
Latitudes == {0, 60}
Longitudes == {0, 60, 120}

InitProject ==
    /\ BatchIdle
    /\ TextIdle
    /\ ProgIdle
    /\ SelIdle
    /\ RouteIdle
    /\ RankIdle
    /\ PlanIdle
    /\ CacheIdle
    /\ ScoreIdle
    /\ CategoryIdle
    /\ RebuildIdle
    /\ TextIndexIdle
    /\ OptIdle
    /\ proj_point \in Latitudes \X Longitudes
    /\ proj_start \in Latitudes \X Longitudes
    /\ proj_end \in Latitudes \X Longitudes
    /\ proj_frame = <<>>

\* point_to_line_distance_km(poi.lat, poi.lon, start_lat, start_lon,
\* end_lat, end_lon)
PointToLine ==
    /\ proj_frame = <<>>
    /\ proj_frame' = <<local_frame(proj_point[1], proj_point[2], proj_start[1],
                                   proj_start[2], proj_end[1], proj_end[2])>>
    /\ UNCHANGED <<proj_point, proj_start, proj_end>>
    /\ UNCHANGED <<selVars, routeVars, rankVars, planVars, cacheVars, scoreVars, categoryVars, rebuildVars, textIndexVars, optVars, progVars, textVars, batchVars>>

NextProject == PointToLine

SpecProject == InitProject /\ [][NextProject]_vars

(***************************************************************************)
(* filter_progressive_pois and check_progressive_approach on one list.     *)
(***************************************************************************)
\* places towards the destination, beside it and behind the start
ProgPlaces == Places \cup {<<0 - 2, 0>>}

InitProgressive ==
    /\ BatchIdle
    /\ TextIdle
    /\ SelIdle
    /\ RouteIdle
    /\ RankIdle
    /\ PlanIdle
    /\ CacheIdle
    /\ ScoreIdle
    /\ CategoryIdle
    /\ RebuildIdle
    /\ TextIndexIdle
    /\ OptIdle
    /\ ProjIdle
    /\ prog_pois \in SeqsUpTo({NewPoi(at, <<>>) : at \in ProgPlaces}, MaxCandidates)
    /\ prog_end \in Ends
    /\ prog_tolerance \in Tolerances
    /\ prog_filtered = <<>>
    /\ prog_checked = <<>>
    /\ prog_again = <<>>

\* filter_progressive_pois(pois, start, end, tolerance_km)
FilterProgressive ==
    /\ prog_filtered = <<>>
    /\ prog_filtered' = <<filter_progressive_pois(prog_pois, Start, prog_end, prog_tolerance)>>
    /\ UNCHANGED <<prog_pois, prog_end, prog_tolerance, prog_checked, prog_again>>
    /\ UNCHANGED <<selVars, routeVars, rankVars, planVars, cacheVars, scoreVars, categoryVars, rebuildVars, textIndexVars, optVars, projVars, textVars, batchVars>>

\* check_progressive_approach(pois, start, end, tolerance_km)
CheckProgressive ==
    /\ prog_checked = <<>>
    /\ prog_checked' = <<check_progressive_approach(prog_pois, Start, prog_end, prog_tolerance)>>
    /\ UNCHANGED <<prog_pois, prog_end, prog_tolerance, prog_filtered, prog_again>>
    /\ UNCHANGED <<selVars, routeVars, rankVars, planVars, cacheVars, scoreVars, categoryVars, rebuildVars, textIndexVars, optVars, projVars, textVars, batchVars>>

\* both functions called on the list filter_progressive_pois returned
FilterAgain ==
    /\ prog_filtered # <<>>
    /\ prog_again = <<>>
    /\ prog_again' =
          <<[filtered |-> filter_progressive_pois(prog_filtered[1], Start, prog_end,
                                                  prog_tolerance),
             checked |-> check_progressive_approach(prog_filtered[1], Start, prog_end,
                                                    prog_tolerance)]>>
    /\ UNCHANGED <<prog_pois, prog_end, prog_tolerance, prog_filtered, prog_checked>>
    /\ UNCHANGED <<selVars, routeVars, rankVars, planVars, cacheVars, scoreVars, categoryVars, rebuildVars, textIndexVars, optVars, projVars, textVars, batchVars>>

NextProgressive == FilterProgressive \/ CheckProgressive \/ FilterAgain

SpecProgressive == InitProgressive /\ [][NextProgressive]_vars

(***************************************************************************)
(* poi_text called again and again on the text cache.                      *)
(***************************************************************************)
\* most poi_text calls
MaxTextCalls == 4

InitText ==
    /\ BatchIdle
    /\ SelIdle
    /\ RouteIdle
    /\ RankIdle
    /\ PlanIdle
    /\ ScoreIdle
    /\ CategoryIdle
    /\ RebuildIdle
    /\ TextIndexIdle
    /\ OptIdle
    /\ ProjIdle
    /\ ProgIdle
    /\ text_cache = EmptyCache
    /\ embed_cache = EmptyCache
    /\ run_results = <<>>
    /\ requests = <<>>
    /\ text_calls = <<>>

\* text = poi_text(data)
PoiText ==
    /\ Len(text_calls) < MaxTextCalls
    /\ \E data \in CachePois :
         \E r \in {poi_text_cached(text_cache, data)} :
            /\ text_cache' = r.cache
            /\ text_calls' = Append(text_calls, [poi |-> data, text |-> r.text])
    /\ UNCHANGED <<embed_cache, run_results, requests>>
    /\ UNCHANGED <<selVars, routeVars, rankVars, planVars, scoreVars, categoryVars, rebuildVars, textIndexVars, optVars, projVars, progVars, batchVars>>

NextText == PoiText

SpecText == InitText /\ [][NextText]_vars

(***************************************************************************)
(* batch_resolve and its thread pool.                                      *)
(***************************************************************************)
\* longest list passed to batch_resolve
MaxBatch == 3

\* names that resolve, one that Nominatim does not know, and one for which
\* the adapter raises
BatchNames == {"a", "b", "nowhere", "timeout"}

\* values of TRAVEL_MARVEL_RESOLVE_WORKERS
WorkerSettings == {0, 1, 2, 4}

InitBatch ==
    /\ SelIdle
    /\ RouteIdle
    /\ RankIdle
    /\ PlanIdle
    /\ CacheIdle
    /\ ScoreIdle
    /\ CategoryIdle
    /\ RebuildIdle
    /\ TextIndexIdle
    /\ OptIdle
    /\ ProjIdle
    /\ ProgIdle
    /\ TextIdle
    /\ batch_pois \in SeqsUpTo(BatchNames, MaxBatch)
    /\ max_workers \in WorkerSettings
    /\ work_queue = <<>>
    /\ workers = <<>>
    /\ futures = <<>>
    /\ completion = <<>>
    /\ batch_result = <<>>
    /\ batch_call = "none"

OtherThanBatch == <<selVars, routeVars, rankVars, planVars, cacheVars, scoreVars, categoryVars, rebuildVars, textIndexVars, optVars, projVars, progVars, textVars>>

\* "if not pois: return []"
BatchEmpty ==
    /\ batch_call = "none"
    /\ batch_pois = <<>>
    /\ batch_call' = "returned"
    /\ UNCHANGED <<batch_pois, max_workers, work_queue, workers, futures, completion, batch_result>>
    /\ UNCHANGED OtherThanBatch

\* worker_count == 1: the list comprehension over resolve_one, which
\* raises what the first failing call raises
BatchSequential ==
    /\ batch_call = "none"
    /\ batch_pois # <<>>
    /\ worker_count(batch_pois, max_workers) = 1
    /\ IF \E i \in 1..Len(batch_pois) : resolve_one(batch_pois[i]).status = "raise"
       THEN /\ batch_call' = "raised"
            /\ UNCHANGED batch_result
       ELSE /\ batch_call' = "returned"
            /\ batch_result' = [i \in 1..Len(batch_pois) |-> resolve_one(batch_pois[i])]
    /\ UNCHANGED <<batch_pois, max_workers, work_queue, workers, futures, completion>>
    /\ UNCHANGED OtherThanBatch

\* executor.map submits one task per POI, in order, to a pool of
\* worker_count threads
BatchSubmit ==
    /\ batch_call = "none"
    /\ batch_pois # <<>>
    /\ worker_count(batch_pois, max_workers) > 1
    /\ work_queue' = [i \in 1..Len(batch_pois) |-> i]
    /\ workers' = [w \in 1..worker_count(batch_pois, max_workers) |-> 0]
    /\ futures' = [i \in 1..Len(batch_pois) |-> <<>>]
    /\ batch_call' = "submitted"
    /\ UNCHANGED <<batch_pois, max_workers, completion, batch_result>>
    /\ UNCHANGED OtherThanBatch

\* an idle worker thread takes the oldest task of the queue
WorkerTake(w) ==
    /\ batch_call = "submitted"
    /\ workers[w] = 0
    /\ work_queue # <<>>
    /\ workers' = [workers EXCEPT ![w] = Head(work_queue)]
    /\ work_queue' = Tail(work_queue)
    /\ UNCHANGED <<batch_pois, max_workers, futures, completion, batch_result, batch_call>>
    /\ UNCHANGED OtherThanBatch

\* the worker finishes resolve_one for its task and sets the future
WorkerFinish(w) ==
    /\ batch_call = "submitted"
    /\ workers[w] # 0
    /\ futures' = store_result(futures, workers[w], resolve_one(batch_pois[workers[w]]))
    /\ completion' = Append(completion, workers[w])
    /\ workers' = [workers EXCEPT ![w] = 0]
    /\ UNCHANGED <<batch_pois, max_workers, work_queue, batch_result, batch_call>>
    /\ UNCHANGED OtherThanBatch

\* list(executor.map(...)) takes the result of the next future in the
\* order of submission once it is set; an exception stored in the future
\* is raised out of batch_resolve
CollectNext ==
    /\ batch_call = "submitted"
    /\ Len(batch_result) < Len(futures)
    /\ futures[Len(batch_result) + 1] # <<>>
    /\ LET outcome == futures[Len(batch_result) + 1][1]
       IN IF outcome.status = "raise"
          THEN /\ batch_call' = "raised"
               /\ UNCHANGED batch_result
          ELSE /\ batch_result' = Append(batch_result, outcome)
               /\ batch_call' = IF Len(batch_result) + 1 = Len(futures)
                                THEN "returned" ELSE "submitted"
    /\ UNCHANGED <<batch_pois, max_workers, work_queue, workers, futures, completion>>
    /\ UNCHANGED OtherThanBatch

NextBatch ==
    \/ BatchEmpty
    \/ BatchSequential
    \/ BatchSubmit
    \/ \E w \in DOMAIN workers : WorkerTake(w)
    \/ \E w \in DOMAIN workers : WorkerFinish(w)
    \/ CollectNext

SpecBatch == InitBatch /\ [][NextBatch]_vars

(***************************************************************************)
(* Claims about the waypoint selection.                                    *)
(***************************************************************************)
DistToDest(p) == distance_km(p.at, end_pt)

\* the segments (of EffectiveMaxPois equal-width ones) the POIs of l fall in
SegmentsOf(l) ==
    {SegmentIdx(l[i], EffectiveMaxPois, LineLenSq(Start, end_pt)) : i \in 1..Len(l)}

\* C1: in the list discover_pois_along_route returns, no waypoint is farther
\* from the destination than its predecessor by more than the tolerance.
C1_NoBacktrackBeyondTolerance ==
    call = "returned" =>
        \A i \in 1..(Len(final_pois) - 1) :
            DistToDest(final_pois[i + 1]) <= DistToDest(final_pois[i]) + tolerance

\* C4: for max_pois >= 1, discover_pois_along_route returns at most
\* max_pois waypoints.
C4_AtMostMaxPois ==
    (call = "returned" /\ EffectiveMaxPois >= 1) =>
        Len(final_pois) <= EffectiveMaxPois

\* more candidates than max_pois went into the selection, and exactly
\* max_pois came out
C4_Witness ==
    /\ call = "returned"
    /\ EffectiveMaxPois >= 1
    /\ Len(progressive_pois) > EffectiveMaxPois
    /\ Len(final_pois) = EffectiveMaxPois

\* C5: when the progressively filtered candidates cover max_pois distinct
\* segments, exactly max_pois waypoints are returned, one from each segment.
C5_OnePerSegment ==
    (/\ call = "returned"
     /\ EffectiveMaxPois >= 1
     /\ SegmentsOf(progressive_pois) = 0..(EffectiveMaxPois - 1)) =>
        /\ Len(final_pois) = EffectiveMaxPois
        /\ SegmentsOf(final_pois) = 0..(EffectiveMaxPois - 1)

\* C6: the returned waypoints are sorted by position_along_route ascending.
C6_SortedByPosition ==
    call = "returned" =>
        \A i \in 1..(Len(final_pois) - 1) :
            final_pois[i].position_along_route[1]
                <= final_pois[i + 1].position_along_route[1]

(***************************************************************************)
(* Claims about the similar-POI finder.                                    *)
(***************************************************************************)
\* is the result the POI p: same name, coordinates and category
SamePoi(result, p) ==
    /\ result.name = p.name
    /\ result.at = p.at
    /\ result.category = p.category

\* C2: every alternative find_similar returns after build_index lies
\* within radius_km of the user center.
C2_WithinRadius ==
    find_call = "returned" =>
        \A i \in 1..Len(results) : distance_km(results[i].at, Center) <= radius_km

\* the pool holds a candidate beyond the radius in a bucket the query
\* searches, and the search returned something
C2_Witness ==
    /\ find_call = "returned"
    /\ build_call = "returned"
    /\ results # <<>>
    /\ \E i \in 1..Len(regional_pois) :
          /\ distance_km(regional_pois[i].at, Center) > radius_km
          /\ BucketOf(regional_pois[i].category)
                \in Range(matching_buckets(Lower(query[1].category)))

\* C3: a query that is in the pool verbatim is never among its own results.
C3_NoSelfMatch ==
    (find_call = "returned" /\ query[1] \in Range(regional_pois)) =>
        \A i \in 1..Len(results) : ~SamePoi(results[i], query[1])

\* the query is in the pool, within the radius, its bucket was built and
\* searched, and something else was returned
C3_Witness ==
    /\ find_call = "returned"
    /\ query[1] \in Range(regional_pois)
    /\ distance_km(query[1].at, Center) <= radius_km
    /\ BucketOf(query[1].category) \in DOMAIN index_by_cat
    /\ BucketOf(query[1].category) \in Range(matching_buckets(Lower(query[1].category)))
    /\ results # <<>>

(***************************************************************************)
(* Claims about the route path.                                            *)
(***************************************************************************)
\* the response is a raise or an empty list of routes
FailedOrEmpty(response) == ~response.ok \/ response.routes = <<>>

\* the first route of the response has a coordinate pair
Usable(response) ==
    /\ response.ok
    /\ response.routes # <<>>
    /\ \E j \in 1..Len(response.routes[1]) : Len(response.routes[1][j]) >= 2

\* C7: _build_route_path returns a non-empty path whatever the routing
\* engine answers, and the straight line user_start, waypoints in order,
\* destination when every profile fails or answers nothing.
C7_PathNeverEmpty ==
    route_call = "returned" =>
        /\ route_path # <<>>
        /\ (\A i \in 1..3 : FailedOrEmpty(ors_responses[i])) =>
              route_path = <<Start>> \o [i \in 1..Len(waypoints) |-> waypoints[i].at]
                                    \o <<destination>>

\* one profile raised, the others answered nothing, and the path goes
\* straight through a waypoint
C7_Witness ==
    /\ route_call = "returned"
    /\ ~ors_responses[1].ok
    /\ ors_responses[2] = [ok |-> TRUE, routes |-> <<>>]
    /\ ~ors_responses[3].ok
    /\ waypoints # <<>>
    /\ route_path = <<Start, waypoints[1].at, destination>>

\* C8: the profiles are requested in the order driving-car, foot-walking,
\* cycling-regular, each only after every earlier one raised or gave an
\* empty path, and the first non-empty path ends the requests and is the
\* result.
C8_FirstUsableProfileWins ==
    route_call = "returned" =>
        LET n == Len(requested)
        IN /\ n \in 1..3
           /\ requested = SubSeq(<<"driving-car", "foot-walking", "cycling-regular">>, 1, n)
           /\ \A i \in 1..(n - 1) : ~Usable(ors_responses[i])
           /\ n < 3 => Usable(ors_responses[n])
           /\ Usable(ors_responses[n]) =>
                 /\ route_path # <<>>
                 /\ \A j \in 1..Len(route_path) :
                       \E c \in Range(ors_responses[n].routes[1]) :
                           Len(c) >= 2 /\ route_path[j] = <<c[2], c[1]>>

\* the first profile raised, the second gave a path, and the third, which
\* would have given another one, was not requested
C8_Witness ==
    /\ route_call = "returned"
    /\ ~ors_responses[1].ok
    /\ ors_responses[2] = [ok |-> TRUE, routes |-> <<<<<<7, 8>>>>>>]
    /\ ors_responses[3] = [ok |-> TRUE, routes |-> <<<<<<7>>, <<5, 6>>>>>>]
    /\ requested = <<"driving-car", "foot-walking">>
    /\ route_path = <<<<8, 7>>>>

(***************************************************************************)
(* Claims about the orchestration.                                         *)
(***************************************************************************)
\* C9: find_similar raises on an index without buckets, and when the build
\* or the search raised, discover_local_alternatives returns the first
\* topk_each resolved candidates, in pool order and unscored.
C9_FallbackOnIndexFailure ==
    /\ (build_call = "returned" /\ index_by_cat = EmptyIndex) => find_call = "raised"
    /\ (build_call = "raised" \/ find_call = "raised") =>
          /\ plan_call \in {"alternatives", "returned"}
          /\ plan_error = ""
          /\ Len(alternatives) = Min(topk_each, Len(NotNone(cand_res)))
          /\ \A i \in 1..Len(alternatives) :
                /\ alternatives[i].destination.name = NotNone(cand_res)[i].name
                /\ alternatives[i].destination.at = NotNone(cand_res)[i].at
                /\ alternatives[i].destination.score = <<>>

\* the search raised on an empty index, two candidates were resolved, and
\* the request returned the route to the first of them
C9_Witness ==
    /\ plan_call = "returned"
    /\ build_call = "returned"
    /\ find_call = "raised"
    /\ Len(NotNone(cand_res)) = 2
    /\ topk_each = 1
    /\ Len(routes) = 1
    /\ routes[1].destination.name = NotNone(cand_res)[1].name
    /\ routes[1].score = <<>>

\* C10: once the target is resolved the request does not raise; only a
\* target that cannot be resolved is an error for the caller.
C10_NoFailureAfterTargetResolved ==
    plan_call = "raised" => target_res.status # "ok"

(***************************************************************************)
(* Claims about invalid arguments.                                         *)
(***************************************************************************)
\* C11: a call of the waypoint selection with max_pois <= 0 is rejected
\* with an error, whatever the candidates are, the empty pool included.
C11_NonPositiveMaxPoisRejected ==
    (call # "none" /\ max_pois # <<>> /\ max_pois[1] <= 0) => call = "raised"

\* C12: a call of the ranking with topk_each <= 0 is rejected with an
\* error and never returns a result list.
C12_NonPositiveTopKRejected ==
    (find_call # "none" /\ topk_each <= 0) => find_call = "raised"

(***************************************************************************)
(* Claims about failing POI sources.                                       *)
(***************************************************************************)
\* the POIs of the sources that answered
SucceededPois ==
    (IF osm_out.ok THEN Range(osm_out.pois) ELSE {})
        \cup (IF ors_out.ok THEN Range(ors_out.pois) ELSE {})

\* C13: whatever the POI sources do, raise included, the call with a valid
\* max_pois returns; every waypoint is a POI of a source that answered, and
\* the list is empty when no source gave a candidate.
C13_SourceFailureIsZeroContribution ==
    (call # "none" /\ EffectiveMaxPois >= 1) =>
        /\ call = "returned"
        /\ \A i \in 1..Len(final_pois) :
             \E p \in SucceededPois : p.at = final_pois[i].at /\ p.score = final_pois[i].score
        /\ SucceededPois = {} => final_pois = <<>>

\* one source raised, the other answered, and its POIs made the waypoints
C13_Witness ==
    /\ call = "returned"
    /\ EffectiveMaxPois >= 1
    /\ ~osm_out.ok
    /\ ors_out.ok
    /\ final_pois # <<>>

(***************************************************************************)
(* Claims about the caches.                                                *)
(***************************************************************************)
\* C14: the same ranking request made twice in succession gives the same
\* ordered results both times, whatever the caches held before the first.
C14_RankingIdempotent ==
    Len(run_results) = 2 => run_results[1] = run_results[2]

\* the request was made twice and returned alternatives, and the text
\* cache holds for a candidate a text that is not the one built from it
C14_Witness ==
    /\ Len(run_results) = 2
    /\ run_results[2].results # <<>>
    /\ \E i \in 1..Len(regional_pois) :
          /\ distance_km(regional_pois[i].at, Center) <= radius_km
          /\ text_cache[text_cache_key(regional_pois[i])] # build_text(regional_pois[i])

(***************************************************************************)
(* Claims about the final score.                                           *)
(***************************************************************************)
\* C15: for every alpha the constructor accepts, the final score does not
\* decrease when the cosine grows at equal boost, nor when the boost grows
\* at equal cosine.
C15_ScoreMonotonic ==
    scores # <<>> =>
        /\ (hit_a.boost = hit_b.boost /\ hit_a.cosine <= hit_b.cosine)
              => scores[1] <= scores[2]
        /\ (hit_a.cosine = hit_b.cosine /\ hit_a.boost <= hit_b.boost)
              => scores[1] <= scores[2]

\* C17: every final score lies in [0, 1] (0 to 1000 thousandths), for every
\* cosine, every boost in [0, 0.3] and every alpha of the finder.
C17_ScoreInUnitInterval ==
    scores # <<>> => \A i \in 1..2 : scores[i] >= 0 /\ scores[i] <= 1000

(***************************************************************************)
(* Claims about the order of the results.                                  *)
(***************************************************************************)
\* the hits of the query that survive the dedup, the radius filter and the
\* self-match suppression, in the order they were retrieved, with their
\* final scores
SurvivingHits ==
    LET q == query[1]
        hits == SearchBuckets(index_by_cat, matching_buckets(q.category), q,
                              Max(30, topk_each * 5))
        deduped == DedupeHits(hits, {}, user_center[1], radius_km)
        NotSelf(hit) == ~SelfMatch(hit[1], q)
        others == Filter(deduped, NotSelf)
    IN [i \in 1..Len(others) |->
           [name |-> others[i][1].name, at |-> others[i][1].at,
            category |-> others[i][1].category,
            score |-> <<FinalScore(others[i][2], scenic_boost(others[i][1], steep))>>]]

\* the number of surviving hits that come before hit n: those with a higher
\* score, and those with the same score retrieved earlier
RankOfHit(n) ==
    Cardinality({m \in 1..Len(SurvivingHits) :
                    \/ SurvivingHits[m].score[1] > SurvivingHits[n].score[1]
                    \/ /\ SurvivingHits[m].score[1] = SurvivingHits[n].score[1]
                       /\ m < n})

\* C16: for topk_each >= 1 the results are the first topk_each surviving
\* hits by descending final score, hits of equal score in the order they
\* were retrieved, and never more than topk_each.
C16_TopKDescendingStable ==
    (find_call = "returned" /\ topk_each >= 1) =>
        /\ Len(results) = Min(topk_each, Len(SurvivingHits))
        /\ \A n \in 1..Len(SurvivingHits) :
              RankOfHit(n) < topk_each => results[RankOfHit(n) + 1] = SurvivingHits[n]

\* two hits of equal score survived, one was asked for, and the one
\* retrieved first was returned
C16_Witness ==
    /\ find_call = "returned"
    /\ topk_each = 1
    /\ Len(SurvivingHits) = 2
    /\ SurvivingHits[1].score = SurvivingHits[2].score
    /\ results = <<SurvivingHits[1]>>

(***************************************************************************)
(* Claims about concurrent requests.                                       *)
(***************************************************************************)
\* the text and the vector request r gets when the requests run one after
\* the other in the given order, on caches that were empty before
SequentialOutcome(order, r) ==
    LET first == poi_text_cached(EmptyCache, requests[order[1]].poi)
        first_vector == embed_cached(EmptyCache, <<first.text>>)
        second == poi_text_cached(first.cache, requests[order[2]].poi)
        second_vector == embed_cached(first_vector.cache, <<second.text>>)
    IN IF r = order[1] THEN <<first.text, first_vector.vectors[1]>>
       ELSE <<second.text, second_vector.vectors[1]>>

\* C18: whatever the interleaving of the concurrent requests, each of them
\* ends with what it would have got in some execution of the requests one
\* after the other.
C18_ConcurrentRequestsSerializable ==
    (\A r \in Requests : requests # <<>> /\ requests[r].pc = "done") =>
        \E order \in {<<1, 2>>, <<2, 1>>} :
            \A r \in Requests :
                <<requests[r].text, requests[r].vector>> = SequentialOutcome(order, r)

(***************************************************************************)
(* Claims about the closing filter.                                        *)
(***************************************************************************)
\* C19: the closing application of the progressive filter removes nothing:
\* the list _optimize_poi_selection returns is the list that is returned.
C19_ClosingFilterRemovesNothing ==
    call = "returned" => final_pois = selected_pois

(***************************************************************************)
(* Claims about the category mapping.                                      *)
(***************************************************************************)
\* C20: for every label of the category mapping, a candidate of that raw
\* category is placed in a bucket that a query of the same category
\* searches.
C20_QuerySearchesBucketOfItsCategory ==
    (bucket # <<>> /\ searched # <<>> /\ cand_category = query_category) =>
        bucket[1] \in Range(searched)

(***************************************************************************)
(* Claims about the buckets of build_index.                                *)
(***************************************************************************)
\* the built buckets that hold this candidate
BucketsHolding(poi) == {coarse \in DOMAIN index_by_cat : poi \in Range(index_by_cat[coarse])}

\* C21: after a successful build_index the built buckets are named by
\* coarse labels only, none is empty, every candidate of the pool that has
\* parseable coordinates within radius_km of user_center is in exactly one
\* bucket (in "unknown" when its category is not recognised), and every
\* bucket member is such a candidate of this call's pool: nothing of an
\* earlier build_index call remains.
C21_BucketsOfLastBuildOnly ==
    build_call \in {"returned", "rebuilt"} =>
        /\ DOMAIN index_by_cat \subseteq Range(CoarseLabels)
        /\ \A coarse \in DOMAIN index_by_cat : index_by_cat[coarse] # <<>>
        /\ \A poi \in Range(regional_pois) :
             (Parseable(poi) /\ distance_km(poi.at, user_center[1]) <= radius_km) =>
                /\ Cardinality(BucketsHolding(poi)) = 1
                /\ Lower(poi.category) \notin CategoryLabels =>
                      BucketsHolding(poi) = {"unknown"}
        /\ \A coarse \in DOMAIN index_by_cat :
             \A poi \in Range(index_by_cat[coarse]) :
                /\ poi \in Range(regional_pois)
                /\ Parseable(poi)
                /\ distance_km(poi.at, user_center[1]) <= radius_km

\* a second build succeeded on a finder that held a candidate which is not
\* in the new pool, and the new pool has a candidate of an unrecognised
\* category, one beyond the radius and one without coordinates
C21_Witness ==
    /\ build_call = "rebuilt"
    /\ \E coarse \in DOMAIN earlier_index :
         \E poi \in Range(earlier_index[coarse]) : poi \notin Range(regional_pois)
    /\ "unknown" \in DOMAIN index_by_cat
    /\ \E poi \in Range(regional_pois) :
         ~Parseable(poi) \/ distance_km(poi.at, user_center[1]) > radius_km

(***************************************************************************)
(* Claims about TextIndex.                                                 *)
(***************************************************************************)
\* C22: an add call that fails leaves the vector index and the metadata
\* list as they were, and at all times the index holds one vector per
\* metadata item, the i-th vector being the embedding of the i-th item.
C22_AddAllOrNothing ==
    /\ [](/\ Len(faiss_index) = Len(meta)
          /\ \A i \in 1..Len(meta) :
               /\ build_text(meta[i]) \in DOMAIN embed_cache
               /\ faiss_index[i] = embed_cache[build_text(meta[i])])
    /\ [][(adds' = adds + 1 /\ add_call' = "raised") =>
            (faiss_index' = faiss_index /\ meta' = meta)]_vars

\* an add failed on an index that already held vectors, and left them
C22_Witness ==
    /\ add_call = "raised"
    /\ adds = 2
    /\ Len(meta) >= 2
    /\ meta[1] # meta[2]

(***************************************************************************)
(* Claims about _optimize_poi_selection.                                   *)
(***************************************************************************)
\* the candidates whose position lies in the k-th of opt_max_count
\* equal-width segments of the route (the last one includes the end)
InSegmentK(k) ==
    {p \in Range(opt_pois) :
        /\ p.position_along_route[1] * opt_max_count >= k * LineLenSq(Start, OptEnd)
        /\ \/ k = opt_max_count - 1
           \/ p.position_along_route[1] * opt_max_count < (k + 1) * LineLenSq(Start, OptEnd)}

\* q has a higher score than p (a missing score counting as 0), or the same
\* score and a smaller position
BetterThan(q, p) ==
    \/ ScoreOr0(q) > ScoreOr0(p)
    \/ ScoreOr0(q) = ScoreOr0(p) /\ q.position_along_route[1] < p.position_along_route[1]

C24_UnscoredFillsLast ==
    (opt_call = "returned" /\ Len(opt_pois) > opt_max_count) =>
        \A p \in Range(opt_selected) :
            (/\ p.score = <<>>
             /\ \E k \in 0..(opt_max_count - 1) :
                    /\ p \in InSegmentK(k)
                    /\ \E q \in InSegmentK(k) : BetterThan(q, p)) =>
                \A q \in Range(opt_pois) : q.score # <<>> => q \in Range(opt_selected)

(***************************************************************************)
(* Claims about point_to_line_distance_km.                                 *)
(***************************************************************************)
\* C25: the longitude deltas of the segment vector and of the point vector
\* are scaled by one factor, the cosine of the mean latitude of the
\* segment, and the latitude deltas are not scaled.
C25_LongitudeScaledByMeanLatitude ==
    proj_frame # <<>> =>
        /\ proj_frame[1].segment_scale = Cos100((proj_start[1] + proj_end[1]) \div 2)
        /\ proj_frame[1].point_scale = proj_frame[1].segment_scale
        /\ proj_frame[1].dx = (proj_end[1] - proj_start[1]) * 100
        /\ proj_frame[1].dpx = (proj_point[1] - proj_start[1]) * 100

(***************************************************************************)
(* Claims about the progressive filter and its check.                      *)
(***************************************************************************)
\* C26: the list filter_progressive_pois returns passes
\* check_progressive_approach, filtering it again removes nothing, and
\* check_progressive_approach accepts a list exactly when the filter
\* returns it unchanged.
C26_FilterAndCheckAgree ==
    /\ prog_again # <<>> =>
          /\ prog_again[1].checked
          /\ prog_again[1].filtered = prog_filtered[1]
    /\ (prog_filtered # <<>> /\ prog_checked # <<>>) =>
          (prog_checked[1] <=> prog_filtered[1] = prog_pois)

\* a list of three the check rejects, of which the filter keeps two, one of
\* them a step back within the tolerance
C26_Witness ==
    /\ prog_again # <<>>
    /\ prog_checked = <<FALSE>>
    /\ Len(prog_pois) = 3
    /\ Len(prog_filtered[1]) = 2
    /\ prog_tolerance = 1
    /\ distance_km(prog_filtered[1][2].at, prog_end) > distance_km(prog_filtered[1][1].at, prog_end)

(***************************************************************************)
(* Further claims about discover_local_alternatives.                       *)
(***************************************************************************)
\* C27: every alternative destination discover_local_alternatives returns
\* lies within radius_km of user_center, on the fallback path too.
C27_AlternativesWithinRadius ==
    plan_call \in {"alternatives", "returned"} =>
        \A i \in 1..Len(alternatives) :
            distance_km(alternatives[i].destination.at, Center) <= radius_km

(***************************************************************************)
(* Claims about poi_text.                                                  *)
(***************************************************************************)
\* C28: whatever calls came before, two POIs that differ in their
\* narrative description never get the same text from poi_text, and one POI
\* gets the same text every time.
C28_TextDependsOnOwnDescription ==
    \A i, j \in 1..Len(text_calls) :
        /\ text_calls[i].poi.desc # text_calls[j].poi.desc =>
              text_calls[i].text # text_calls[j].text
        /\ text_calls[i].poi = text_calls[j].poi =>
              text_calls[i].text = text_calls[j].text

(***************************************************************************)
(* Claims about a build_index that fails.                                  *)
(***************************************************************************)
\* C29: after a build_index call that raised, find_similar raises the
\* index-empty error; it answers from no bucket.
C29_FailedBuildLeavesNoBuckets ==
    (build_call = "raised" /\ find_call # "none") => find_call = "raised"

(***************************************************************************)
(* Claims about batch_resolve.                                             *)
(***************************************************************************)
\* C30: the list batch_resolve returns is as long as its input, and its
\* i-th element is the resolution (or None) of the i-th input POI, for
\* every worker count and every order in which the workers finish.
C30_BatchResolveKeepsOrder ==
    batch_call = "returned" =>
        /\ Len(batch_result) = Len(batch_pois)
        /\ \A i \in 1..Len(batch_pois) : batch_result[i] = resolve_one(batch_pois[i])

\* three different POIs were resolved by more than one worker, the last
\* task finished first, and the list was returned
C30_Witness ==
    /\ batch_call = "returned"
    /\ Len(batch_pois) = 3
    /\ Cardinality(Range(batch_pois)) = 3
    /\ Len(completion) = 3
    /\ completion[1] = 3

====
